---------------------------- MODULE Spec2Model ----------------------------
(***************************************************************************)
(* EasyOwl: class-hierarchy navigation (hierarchy.py), the OntologyParser  *)
(* facade (reader.py), TF-IDF similarity search (similarity.py) and the    *)
(* OWL file parser (parsing.py), as state machines.                        *)
(*                                                                         *)
(* Conventions.  A Python value that may be None is a sequence of length   *)
(* at most one: <<>> is None, <<v>> is v.  A Python set whose iteration    *)
(* order is unspecified is a TLA+ set, and every loop over it is explored  *)
(* in every order.  A call is one action: it leaves its outcome in `last`. *)
(***************************************************************************)
EXTENDS Integers, Sequences, FiniteSets, TLC

\* ------------------------------------------------------------- bounds
\* The URIs of the model: the first NumURIs names of URIPool.
NumURIs == 3
\* The most subClassOf references a document of the model holds.
MaxEdges == 4
\* The largest max_depth argument a caller of the model passes.
MaxDepthArg == 2
\* The most entities a document of the similarity engine's model holds.
NumSimEntities == 2
\* The largest n a caller of find_similar passes.
MaxTopN == 2
\* The most class elements a document of the parser's model holds.
MaxClasses == 2
\* How far past the traversal-depth ceiling the longest chain of classes goes.
ChainExcess == 2

\* ---------------------------------------------------------- constants
MAX_RECURSION_DEPTH == 1000
\* sys.getrecursionlimit() of an interpreter whose limit nothing has raised
DEFAULT_RECURSION_LIMIT == 1000
UNLIMITED_DEPTH == -1

URIPool == <<"A", "B", "C", "D", "E", "F">>
URIs == {URIPool[i] : i \in 1..NumURIs}
DepthArgs == (-2)..MaxDepthArg

None == <<>>
Some(v) == <<v>>

Range(s) == {s[i] : i \in DOMAIN s}

\* The sequences that list the elements of S once each: list(S) of a set.
ListsOf(S) ==
  {f \in [1..Cardinality(S) -> S] : \A i, j \in 1..Cardinality(S) : f[i] = f[j] => i = j}

\* The elements of S in pool order (a document lists them in some order; the
\* model fixes one, the maps built from it being sets).
InPoolOrder(S) ==
  LET idx == {i \in 1..Len(URIPool) : URIPool[i] \in S}
      RECURSIVE build(_, _)
      build(rest, acc) ==
        IF rest = {} THEN acc
        ELSE LET m == CHOOSE i \in rest : \A j \in rest : i <= j
             IN  build(rest \ {m}, Append(acc, URIPool[m]))
  IN  build(idx, <<>>)

\* ------------------------------------------------------------ entities
\* An entry of an entity's "subclasses" list: a plain URI string, or the list
\* _parse_restriction_or_intersection returned (Restriction dicts).
StrItem(u) == [kind |-> "str", value |-> u, items |-> <<>>]
ListItem(xs) == [kind |-> "list", value |-> "", items |-> xs]
RestrictionDict(p, v) == [kind |-> "dict", onProperty |-> p, someValuesFrom |-> v]

\* A value of an entity's "properties" dict: one string (scalar), or a list.
Str(v) == [scalar |-> TRUE, vals |-> <<v>>]
Lst(vs) == [scalar |-> FALSE, vals |-> vs]
NoProperties == [t \in {} |-> Str("")]

\* dict.get(tag): None when the key is absent.
props_get(props, tag) == IF tag \in DOMAIN props THEN Some(props[tag]) ELSE None

VARIABLES
  file,           \* what file_path names on disk (parse_owl_file's input)
  entities,       \* entity URI -> entity data (parse_owl_file's first result)
  subclass_map,   \* HierarchyNavigator._subclass_map
  reverse_map,    \* HierarchyNavigator._reverse_map
  relations,      \* OntologyParser.relations
  term_to_ids,    \* SimilaritySearch._term_to_ids (a dict: its items in insertion order)
  index_to_term,  \* SimilaritySearch._index_to_term
  term_to_index,  \* SimilaritySearch._term_to_index
  similarity_matrix,  \* SimilaritySearch._similarity_matrix (None until built)
  callstack,      \* the _traverse_* calls in progress, outermost first
  recursionlimit, \* the interpreter's sys.getrecursionlimit()
  pc,             \* "idle": no call in progress; "done": `last` holds a call's outcome
  last            \* the last call: its operation, arguments and outcome

hierVars == <<subclass_map, reverse_map, relations, callstack, recursionlimit>>
simVars == <<term_to_ids, index_to_term, term_to_index, similarity_matrix>>
vars == <<file, entities, hierVars, simVars, pc, last>>

\* A specification of one component leaves the others unbuilt.
NoFile == file = <<>>

NoSimilarity ==
  /\ term_to_ids = <<>>
  /\ index_to_term = <<>>
  /\ term_to_index = <<>>
  /\ similarity_matrix = <<>>

\* No traversal is in progress, in an interpreter with the default limit.
NoTraversal ==
  /\ callstack = <<>>
  /\ recursionlimit = DEFAULT_RECURSION_LIMIT

NoHierarchy ==
  /\ subclass_map = <<>>
  /\ reverse_map = <<>>
  /\ relations = <<>>
  /\ NoTraversal

\* ------------------------------------------------------- hierarchy.py
\* A forward map that also takes the filler of every Restriction dict.
build_subclass_map_with_fillers(ents) ==
  LET filler(d) == IF d.someValuesFrom = <<>> THEN {} ELSE {d.someValuesFrom[1]}
      plain(item) ==
        IF item.kind = "str" THEN {item.value}
        ELSE IF item.kind = "list"
             THEN UNION {IF item.items[i].kind = "str" THEN {item.items[i].value}
                         ELSE IF item.items[i].kind = "dict" THEN filler(item.items[i])
                         ELSE {} : i \in DOMAIN item.items}
             ELSE IF item.kind = "dict" THEN filler(item) ELSE {}
      supers(e) == UNION {plain(ents[e].subclasses[i]) : i \in DOMAIN ents[e].subclasses}
      keys == {e \in DOMAIN ents : supers(e) # {}}
  IN  [e \in keys |-> supers(e)]

\* The dict a defaultdict(set) ends as: the keys that were touched.
build_subclass_map(ents) ==
  LET plain(item) ==
        IF item.kind = "str" THEN {item.value}
        ELSE IF item.kind = "list"
             THEN {item.items[i].value :
                     i \in {j \in DOMAIN item.items : item.items[j].kind = "str"}}
             ELSE {}
      supers(e) == UNION {plain(ents[e].subclasses[i]) : i \in DOMAIN ents[e].subclasses}
      keys == {e \in DOMAIN ents : supers(e) # {}}
  IN  [e \in keys |-> supers(e)]

\* A reverse map without the superclasses that have no superclass themselves.
build_reverse_map_of_keys(smap) ==
  LET keys == (UNION {smap[e] : e \in DOMAIN smap}) \cap DOMAIN smap
  IN  [s \in keys |-> {e \in DOMAIN smap : s \in smap[e]}]

build_reverse_map(smap) ==
  LET keys == UNION {smap[e] : e \in DOMAIN smap}
  IN  [s \in keys |-> {e \in DOMAIN smap : s \in smap[e]}]

\* A depth test that takes the sentinel for a depth.
beyond_max_depth_no_sentinel(current_depth, max_depth) == current_depth > max_depth

\* effective_max = inf when max_depth is the sentinel; current_depth > effective_max
beyond_max_depth(current_depth, max_depth) ==
  max_depth # UNLIMITED_DEPTH /\ current_depth > max_depth

beyond_ceiling(current_depth) == current_depth > MAX_RECURSION_DEPTH

\* A callee that works on a copy of the caller's visited set.
copied_visited(callers, callees) == callers

\* `visited` is one set object, passed by reference down the recursion: what a
\* callee adds is there when the caller's loop goes on.
shared_visited(callers, callees) == callees

\* What one (recursive) call leaves: the set it returns, the shared visited set
\* after it, and the entities it expanded (passed every early return), in order.
Outcome(res, vis, log) == [result |-> res, visited |-> vis, expanded |-> log]

RECURSIVE traverse_ancestors(_, _, _, _, _)
RECURSIVE ancestors_loop(_, _, _, _, _, _, _)

\* The for loop of _traverse_ancestors over the set smap[entity_id], in every
\* iteration order: todo is what is left of the set.
ancestors_loop(smap, max_depth, current_depth, todo, ancestors, visited, log) ==
  IF todo = {} THEN {Outcome(ancestors, visited, log)}
  ELSE UNION {
         UNION { ancestors_loop(smap, max_depth, current_depth, todo \ {superclass_id},
                                (ancestors \cup {superclass_id}) \cup o.result,
                                shared_visited(visited, o.visited), log \o o.expanded)
                 : o \in traverse_ancestors(smap, superclass_id, max_depth, visited,
                                            current_depth + 1) }
         : superclass_id \in todo }

traverse_ancestors(smap, entity_id, max_depth, visited, current_depth) ==
  IF beyond_max_depth(current_depth, max_depth) THEN {Outcome({}, visited, <<>>)}
  ELSE IF beyond_ceiling(current_depth) THEN {Outcome({}, visited, <<>>)}
  ELSE IF entity_id \in visited THEN {Outcome({}, visited, <<>>)}
  ELSE ancestors_loop(smap, max_depth, current_depth,
                      IF entity_id \in DOMAIN smap THEN smap[entity_id] ELSE {},
                      {}, visited \cup {entity_id}, <<entity_id>>)

RECURSIVE traverse_descendants(_, _, _, _, _)
RECURSIVE descendants_loop(_, _, _, _, _, _, _)

descendants_loop(rmap, max_depth, current_depth, todo, descendants, visited, log) ==
  IF todo = {} THEN {Outcome(descendants, visited, log)}
  ELSE UNION {
         UNION { descendants_loop(rmap, max_depth, current_depth, todo \ {subclass_id},
                                  (descendants \cup {subclass_id}) \cup o.result,
                                  shared_visited(visited, o.visited), log \o o.expanded)
                 : o \in traverse_descendants(rmap, subclass_id, max_depth, visited,
                                              current_depth + 1) }
         : subclass_id \in todo }

traverse_descendants(rmap, entity_id, max_depth, visited, current_depth) ==
  IF beyond_max_depth(current_depth, max_depth) THEN {Outcome({}, visited, <<>>)}
  ELSE IF beyond_ceiling(current_depth) THEN {Outcome({}, visited, <<>>)}
  ELSE IF entity_id \in visited THEN {Outcome({}, visited, <<>>)}
  ELSE descendants_loop(rmap, max_depth, current_depth,
                        IF entity_id \in DOMAIN rmap THEN rmap[entity_id] ELSE {},
                        {}, visited \cup {entity_id}, <<entity_id>>)

\* HierarchyNavigator.get_ancestors: every list the call can return, with the
\* expansions of the walk that produced it.
get_ancestors(smap, entity_id, max_depth) ==
  UNION { {[result |-> lst, expanded |-> o.expanded] : lst \in ListsOf(o.result)}
          : o \in traverse_ancestors(smap, entity_id, max_depth, {}, 0) }

get_descendants(rmap, entity_id, max_depth) ==
  UNION { {[result |-> lst, expanded |-> o.expanded] : lst \in ListsOf(o.result)}
          : o \in traverse_descendants(rmap, entity_id, max_depth, {}, 0) }

\* has_entity looking at the forward map alone.
has_entity_in_subclass_map(smap, rmap, entity_id) ==
  entity_id \in DOMAIN smap

has_entity(smap, rmap, entity_id) ==
  entity_id \in DOMAIN smap \/ entity_id \in DOMAIN rmap

\* ------------------------------------------- the navigator's state machine
Idle == [op |-> "none"]

\* A dict whose subscript creates the key it misses.
inserting_read(map, keys) ==
  [k \in DOMAIN map \cup keys |-> IF k \in DOMAIN map THEN map[k] ELSE {}]

\* The dict after the queries' reads of `keys`: `k in map`, and map[k] only
\* where that test has passed.  The maps are plain dicts, and such reads add
\* no key.
guarded_read(map, keys) == map

\* The documents of the model: every assignment of superclass sets to entities
\* with at most MaxEdges references in all (self references, cycles and
\* references to URIs that are no entity included).
Hierarchies ==
  {sup \in [URIs -> SUBSET URIs] :
     LET RECURSIVE total(_)
         total(S) == IF S = {} THEN 0
                     ELSE LET u == CHOOSE x \in S : TRUE
                          IN  Cardinality(sup[u]) + total(S \ {u})
     IN  total(URIs) <= MaxEdges}

EntityOf(supers) ==
  [properties |-> NoProperties,
   subclasses |-> [i \in DOMAIN InPoolOrder(supers) |-> StrItem(InPoolOrder(supers)[i])]]

\* HierarchyNavigator.__init__ on build_subclass_map(entities).  The entities
\* of the document are the classes that reference a superclass, or every URI.
NavInit ==
  /\ NoFile
  /\ \E sup \in Hierarchies :
    \E keys \in {{u \in URIs : sup[u] # {}}, URIs} :
      /\ entities = [e \in keys |-> EntityOf(sup[e])]
      /\ subclass_map = build_subclass_map(entities)
      /\ reverse_map = build_reverse_map(subclass_map)
      /\ relations = <<>>
      /\ NoTraversal
      /\ NoSimilarity
      /\ pc = "idle"
      /\ last = Idle

NavGetAncestors ==
  /\ pc = "idle"
  /\ \E entity_id \in URIs, max_depth \in DepthArgs :
       \E r \in get_ancestors(subclass_map, entity_id, max_depth) :
         /\ last' = [op |-> "get_ancestors", entity_id |-> entity_id,
                     max_depth |-> max_depth, outcome |-> "return",
                     result |-> r.result,
                     expanded |-> r.expanded]
         /\ subclass_map' = guarded_read(subclass_map, Range(r.expanded))
  /\ pc' = "done"
  /\ UNCHANGED <<file, entities, reverse_map, relations, callstack, recursionlimit, simVars>>

NavGetDescendants ==
  /\ pc = "idle"
  /\ \E entity_id \in URIs, max_depth \in DepthArgs :
       \E r \in get_descendants(reverse_map, entity_id, max_depth) :
         /\ last' = [op |-> "get_descendants", entity_id |-> entity_id,
                     max_depth |-> max_depth, outcome |-> "return",
                     result |-> r.result,
                     expanded |-> r.expanded]
         /\ reverse_map' = guarded_read(reverse_map, Range(r.expanded))
  /\ pc' = "done"
  /\ UNCHANGED <<file, entities, subclass_map, relations, callstack, recursionlimit, simVars>>

NavHasEntity ==
  /\ pc = "idle"
  /\ \E entity_id \in URIs :
       /\ last' = [op |-> "has_entity", entity_id |-> entity_id,
                   outcome |-> "return",
                   result |-> has_entity(subclass_map, reverse_map, entity_id)]
       /\ subclass_map' = guarded_read(subclass_map, {entity_id})
       /\ reverse_map' = guarded_read(reverse_map, {entity_id})
  /\ pc' = "done"
  /\ UNCHANGED <<file, entities, relations, callstack, recursionlimit, simVars>>

\* The caller takes the outcome; the navigator is ready for the next call.
Resume ==
  /\ pc = "done"
  /\ pc' = "idle"
  /\ last' = Idle
  /\ UNCHANGED <<file, entities, hierVars, simVars>>

NavNext == NavGetAncestors \/ NavGetDescendants \/ NavHasEntity \/ Resume

NavSpec == NavInit /\ [][NavNext]_vars

\* ------------------ a traversal of a long chain, one nested call at a time
\* The recursion of _traverse_ancestors / _traverse_descendants along a chain
\* of classes 0, 1, ..., n (class i references i + 1 as its only superclass):
\* every loop has one iteration, so the calls in progress form one stack.
ChainLengths == (MAX_RECURSION_DEPTH + 1)..(MAX_RECURSION_DEPTH + ChainExcess)

\* The subclass map of a chain, as build_subclass_map returns it.
Chain(n) == [i \in 0..(n - 1) |-> {i + 1}]

\* The limit of the interpreter the package runs in: the default, or one the
\* host program has raised.
RecursionLimits == {DEFAULT_RECURSION_LIMIT, 2 * DEFAULT_RECURSION_LIMIT}

Frame(entity_id, current_depth) ==
  [entity_id |-> entity_id, current_depth |-> current_depth]

\* `visited` while the walk descends: the entities of the calls in progress.
visited_of(stack) == {stack[i].entity_id : i \in DOMAIN stack}

\* One call _traverse_*(entity_id, max_depth, visited, current_depth) made with
\* the calls of `stack` in progress.  The interpreter counts the caller's
\* frame, the frame of get_ancestors / get_descendants and one frame per call
\* in progress, and raises RecursionError for a frame beyond its limit;
\* otherwise the call returns [] at once (lines 134-143, or nothing to
\* follow) or goes on to call itself.
enter(map, entity_id, max_depth, stack, current_depth) ==
  IF Len(stack) + 3 > recursionlimit THEN "RecursionError"
  ELSE IF beyond_max_depth(current_depth, max_depth) THEN "return"
  ELSE IF beyond_ceiling(current_depth) THEN "return"
  ELSE IF entity_id \in visited_of(stack) THEN "return"
  ELSE IF entity_id \in DOMAIN map /\ map[entity_id] # {} THEN "descend"
  ELSE "return"

\* What the outermost call returns once the innermost has returned []: every
\* call in progress has added the class it followed and merges its callee's
\* list into its own.
collected(map, stack) == UNION {map[stack[i].entity_id] : i \in DOMAIN stack}

DeepStarts == {0, Cardinality(DOMAIN subclass_map)}
DeepDepthArgs == {UNLIMITED_DEPTH, MaxDepthArg}

DeepInit ==
  /\ NoFile
  /\ entities = <<>>
  /\ \E n \in ChainLengths :
       /\ subclass_map = Chain(n)
       /\ reverse_map = build_reverse_map(subclass_map)
  /\ relations = <<>>
  /\ callstack = <<>>
  /\ recursionlimit \in RecursionLimits
  /\ NoSimilarity
  /\ pc = "idle"
  /\ last = Idle

\* The call of the traversal at depth 0, by get_ancestors / get_descendants.
started(op, map, entity_id, max_depth) ==
  LET how == enter(map, entity_id, max_depth, <<>>, 0)
  IN  [callstack |-> IF how = "descend" THEN <<Frame(entity_id, 0)>> ELSE <<>>,
       pc |-> IF how = "descend" THEN "walking" ELSE "done",
       last |-> [op |-> op, entity_id |-> entity_id, max_depth |-> max_depth,
                 outcome |-> IF how = "descend" THEN "running" ELSE how,
                 result |-> {}]]

DeepGetAncestors ==
  /\ pc = "idle"
  /\ \E entity_id \in DeepStarts, max_depth \in DeepDepthArgs :
       LET call == started("get_ancestors", subclass_map, entity_id, max_depth)
       IN  callstack' = call.callstack /\ pc' = call.pc /\ last' = call.last
  /\ UNCHANGED <<file, entities, subclass_map, reverse_map, relations, recursionlimit, simVars>>

DeepGetDescendants ==
  /\ pc = "idle"
  /\ \E entity_id \in DeepStarts, max_depth \in DeepDepthArgs :
       LET call == started("get_descendants", reverse_map, entity_id, max_depth)
       IN  callstack' = call.callstack /\ pc' = call.pc /\ last' = call.last
  /\ UNCHANGED <<file, entities, subclass_map, reverse_map, relations, recursionlimit, simVars>>

\* The innermost call's loop calls the traversal on the class it follows:
\* that call raises, which nothing catches; or returns [], and every call in
\* progress returns in turn; or becomes the innermost call.
DeepTraverse ==
  /\ pc = "walking"
  /\ LET map == IF last.op = "get_ancestors" THEN subclass_map ELSE reverse_map
         top == callstack[Len(callstack)]
     IN  \E related_id \in map[top.entity_id] :
           LET how == enter(map, related_id, last.max_depth, callstack,
                            top.current_depth + 1)
           IN  IF how = "descend"
               THEN /\ callstack' = Append(callstack, Frame(related_id, top.current_depth + 1))
                    /\ pc' = "walking"
                    /\ UNCHANGED last
               ELSE /\ callstack' = <<>>
                    /\ pc' = "done"
                    /\ last' = [last EXCEPT
                                  !.outcome = how,
                                  !.result = IF how = "return"
                                             THEN collected(map, callstack) ELSE {}]
  /\ UNCHANGED <<file, entities, subclass_map, reverse_map, relations, recursionlimit, simVars>>

DeepNext == DeepGetAncestors \/ DeepGetDescendants \/ DeepTraverse \/ Resume

DeepSpec == DeepInit /\ [][DeepNext]_vars

\* ----------------------------------------------------------- reader.py
READER_DEPTH_LIMIT == 1000

\* OntologyParser.build_subclass_map: the str entries of each subclasses list and
\* the str members of its list (or set) entries.  The defaultdict it returns is
\* only read with `in` and .items(), which add no key.
reader_build_subclass_map(ents) ==
  LET plain(item) ==
        IF item.kind = "str" THEN {item.value}
        ELSE IF item.kind \in {"list", "set"}
             THEN {item.items[i].value :
                     i \in {j \in DOMAIN item.items : item.items[j].kind = "str"}}
             ELSE {}
      supers(e) == UNION {plain(ents[e].subclasses[i]) : i \in DOMAIN ents[e].subclasses}
      keys == {e \in DOMAIN ents : supers(e) # {}}
  IN  [e \in keys |-> supers(e)]

\* What one (recursive) call of get_parents / get_children leaves: the set of
\* the list it returns, the memo dict after it, and whether it raised instead.
FOutcome(res, cache, raised) == [result |-> res, cache |-> cache, raised |-> raised]

Memo(cache, entity_id, res) ==
  [x \in DOMAIN cache \cup {entity_id} |-> IF x = entity_id THEN res ELSE cache[x]]

reader_beyond_max_depth(current_depth, max_depth) ==
  max_depth # -1 /\ current_depth > max_depth

\* An unlimited call for an entity whose own call is still in progress (active)
\* finds no memo entry for it (the entry is written when that call ends) and
\* repeats that call's descent one level lower: the recursion never returns,
\* and ends when current_depth passes READER_DEPTH_LIMIT and line 267 (299)
\* raises, or the interpreter's own recursion limit does.  The model takes the
\* descent in one step.
runaway(entity_id, max_depth, active) == max_depth = -1 /\ entity_id \in active

RECURSIVE get_parents(_, _, _, _, _, _)
RECURSIVE parents_loop(_, _, _, _, _, _, _)

parents_loop(smap, max_depth, current_depth, todo, subclasses, cache, active) ==
  IF todo = {} THEN {FOutcome(subclasses, cache, FALSE)}
  ELSE UNION {
         UNION { IF o.raised THEN {o}
                 ELSE parents_loop(smap, max_depth, current_depth, todo \ {subclass},
                                   subclasses \cup o.result, o.cache, active)
                 : o \in get_parents(smap, subclass, max_depth, cache,
                                     current_depth + 1, active) }
         : subclass \in todo }

get_parents(smap, entity_id, max_depth, cache, current_depth, active) ==
  IF reader_beyond_max_depth(current_depth, max_depth) THEN {FOutcome({}, cache, FALSE)}
  ELSE IF current_depth > READER_DEPTH_LIMIT THEN {FOutcome({}, cache, TRUE)}
  ELSE IF entity_id \in DOMAIN cache THEN {FOutcome(cache[entity_id], cache, FALSE)}
  ELSE IF runaway(entity_id, max_depth, active) THEN {FOutcome({}, cache, TRUE)}
  ELSE IF entity_id \in DOMAIN smap
       THEN { IF o.raised THEN o
              ELSE FOutcome(o.result, Memo(o.cache, entity_id, o.result), FALSE)
              : o \in parents_loop(smap, max_depth, current_depth, smap[entity_id],
                                   {entity_id}, cache, active \cup {entity_id}) }
       ELSE {FOutcome({}, Memo(cache, entity_id, {}), FALSE)}

RECURSIVE get_children(_, _, _, _, _, _)
RECURSIVE children_loop(_, _, _, _, _, _, _, _)

\* The loop over subclass_map.items(): a dict iterates in insertion order, the
\* order of the classes in the document, which the model leaves open.
children_loop(smap, entity_id, max_depth, current_depth, todo, children, cache, active) ==
  IF todo = {} THEN {FOutcome(children, cache, FALSE)}
  ELSE UNION {
         IF entity_id \in smap[other_id]
         THEN UNION { IF o.raised THEN {o}
                      ELSE children_loop(smap, entity_id, max_depth, current_depth,
                                         todo \ {other_id},
                                         (children \cup {other_id}) \cup o.result,
                                         o.cache, active)
                      : o \in get_children(smap, other_id, max_depth, cache,
                                           current_depth + 1, active) }
         ELSE children_loop(smap, entity_id, max_depth, current_depth,
                            todo \ {other_id}, children, cache, active)
         : other_id \in todo }

get_children(smap, entity_id, max_depth, cache, current_depth, active) ==
  IF reader_beyond_max_depth(current_depth, max_depth) THEN {FOutcome({}, cache, FALSE)}
  ELSE IF current_depth > READER_DEPTH_LIMIT THEN {FOutcome({}, cache, TRUE)}
  ELSE IF entity_id \in DOMAIN cache THEN {FOutcome(cache[entity_id], cache, FALSE)}
  ELSE IF runaway(entity_id, max_depth, active) THEN {FOutcome({}, cache, TRUE)}
  ELSE { IF o.raised THEN o
         ELSE FOutcome(o.result, Memo(o.cache, entity_id, o.result), FALSE)
         : o \in children_loop(smap, entity_id, max_depth, current_depth, DOMAIN smap,
                                {}, cache, active \cup {entity_id}) }

EmptyCache == [x \in {} |-> {}]

\* A relation of self.relations matches when its domain, its range or one of
\* its property values is entity_id.
relation_matches(relation, entity_id) ==
  \/ relation.domain = Some(entity_id)
  \/ relation.range = Some(entity_id)
  \/ \E t \in DOMAIN relation.properties : relation.properties[t] = entity_id

RECURSIVE matching_relations(_, _)
matching_relations(rels, entity_id) ==
  IF rels = <<>> THEN <<>>
  ELSE (IF relation_matches(Head(rels), entity_id) THEN <<Head(rels)>> ELSE <<>>)
       \o matching_relations(Tail(rels), entity_id)

\* OntologyParser.get_entity_relations: get_children(entity_id, 1), then
\* get_parents(entity_id, 1), then the relations that name entity_id.
get_entity_relations(smap, rels, entity_id) ==
  UNION {
    { IF c.raised \/ p.raised
      THEN [outcome |-> "Exception"]
      ELSE [outcome |-> "return", subclasses |-> c.result, superclasses |-> p.result,
            relationships |-> matching_relations(rels, entity_id)]
      : p \in get_parents(smap, entity_id, 1, EmptyCache, 0, {}) }
    : c \in get_children(smap, entity_id, 1, EmptyCache, 0, {}) }

\* --------------------------------------------- the facade's state machine
\* The object properties of the model's documents: none, or one that names the
\* first URI as its domain, as its range, or as the text of its label child.
Relation(d, r, props) == [predicate |-> "P", domain |-> d, range |-> r, properties |-> props]

RelationLists ==
  { <<>>,
    <<Relation(Some(URIPool[1]), None, [t \in {} |-> ""])>>,
    <<Relation(None, Some(URIPool[1]), [t \in {} |-> ""])>>,
    <<Relation(None, None, [t \in {"label"} |-> URIPool[1]])>> }

\* OntologyParser.__init__: parse_owl, then build_subclass_map.  The facade keeps
\* no reverse map.
FacadeInit ==
  /\ NoFile
  /\ \E sup \in Hierarchies :
    \E keys \in {{u \in URIs : sup[u] # {}}, URIs} :
      /\ entities = [e \in keys |-> EntityOf(sup[e])]
      /\ subclass_map = reader_build_subclass_map(entities)
      /\ reverse_map = [x \in {} |-> {}]
      /\ relations \in RelationLists
      /\ NoTraversal
      /\ NoSimilarity
      /\ pc = "idle"
      /\ last = Idle

FacadeGetParents ==
  /\ pc = "idle"
  /\ \E entity_id \in URIs, max_depth \in DepthArgs :
       \E o \in get_parents(subclass_map, entity_id, max_depth, EmptyCache, 0, {}) :
         \/ /\ o.raised
            /\ last' = [op |-> "get_parents", entity_id |-> entity_id,
                        max_depth |-> max_depth, outcome |-> "Exception"]
         \/ /\ ~o.raised
            /\ \E lst \in ListsOf(o.result) :
                 last' = [op |-> "get_parents", entity_id |-> entity_id,
                          max_depth |-> max_depth, outcome |-> "return",
                          result |-> lst]
  /\ pc' = "done"
  /\ UNCHANGED <<file, entities, hierVars, simVars>>

FacadeGetChildren ==
  /\ pc = "idle"
  /\ \E entity_id \in URIs, max_depth \in DepthArgs :
       \E o \in get_children(subclass_map, entity_id, max_depth, EmptyCache, 0, {}) :
         \/ /\ o.raised
            /\ last' = [op |-> "get_children", entity_id |-> entity_id,
                        max_depth |-> max_depth, outcome |-> "Exception"]
         \/ /\ ~o.raised
            /\ \E lst \in ListsOf(o.result) :
                 last' = [op |-> "get_children", entity_id |-> entity_id,
                          max_depth |-> max_depth, outcome |-> "return",
                          result |-> lst]
  /\ pc' = "done"
  /\ UNCHANGED <<file, entities, hierVars, simVars>>

FacadeGetEntityRelations ==
  /\ pc = "idle"
  /\ \E entity_id \in URIs :
       \E r \in get_entity_relations(subclass_map, relations, entity_id) :
         last' = [op |-> "get_entity_relations", entity_id |-> entity_id,
                  outcome |-> r.outcome, result |-> r]
  /\ pc' = "done"
  /\ UNCHANGED <<file, entities, hierVars, simVars>>

FacadeNext ==
  FacadeGetParents \/ FacadeGetChildren \/ FacadeGetEntityRelations \/ Resume

FacadeSpec == FacadeInit /\ [][FacadeNext]_vars

\* ------------------------------------------------------- similarity.py
\* A Python dict as the sequence of its items in insertion order.
dict_has(d, k) == \E i \in DOMAIN d : d[i].key = k
dict_get(d, k) == d[CHOOSE i \in DOMAIN d : d[i].key = k].value
\* d[k] = v: a present key keeps its place
dict_set(d, k, v) ==
  IF dict_has(d, k)
  THEN [i \in DOMAIN d |-> IF d[i].key = k THEN [key |-> k, value |-> v] ELSE d[i]]
  ELSE Append(d, [key |-> k, value |-> v])
dict_keys(d) == [i \in DOMAIN d |-> d[i].key]

\* The entity keys in the order of the dict: the order of the classes in the
\* document, which the model takes to be pool order.
entity_order(ents) == InPoolOrder(DOMAIN ents)

\* {properties["id"]: properties.get(tag) for each entity whose properties have an
\* "id"}: the values are None or the property's value.
RECURSIVE id_to_property(_, _, _, _)
id_to_property(ents, order, tag, acc) ==
  IF order = <<>> THEN acc
  ELSE LET props == ents[Head(order)].properties
       IN  id_to_property(ents, Tail(order), tag,
             IF props_get(props, "id") = None THEN acc
             ELSE dict_set(acc, props["id"].vals[1], props_get(props, tag)))

\* if name not in term_to_ids: term_to_ids[name] = set(); term_to_ids[name].add(id)
term_add(term_to_ids_, name, entity_id) ==
  IF dict_has(term_to_ids_, name)
  THEN dict_set(term_to_ids_, name, dict_get(term_to_ids_, name) \cup {entity_id})
  ELSE Append(term_to_ids_, [key |-> name, value |-> {entity_id}])

\* The first loop: every entity with an id registers its label, None included.
RECURSIVE add_exact_names(_, _)
add_exact_names(items, acc) ==
  IF items = <<>> THEN acc
  ELSE add_exact_names(Tail(items),
         term_add(acc,
                  IF Head(items).value = None THEN None
                  ELSE Some(Head(items).value[1].vals[1]),
                  Head(items).key))

RECURSIVE add_names(_, _, _)
add_names(names, entity_id, acc) ==
  IF names = <<>> THEN acc
  ELSE add_names(Tail(names), entity_id, term_add(acc, Some(Head(names)), entity_id))

\* The second loop: None is skipped, a str is one name, a list is its members.
RECURSIVE add_synonymy(_, _)
add_synonymy(items, acc) ==
  IF items = <<>> THEN acc
  ELSE add_synonymy(Tail(items),
         IF Head(items).value = None THEN acc
         ELSE add_names(Head(items).value[1].vals, Head(items).key, acc))

\* A list is unhashable: a list-valued "id" fails as a dict key, a list-valued
\* label fails at `name not in term_to_ids`.
unhashable_key(ents) ==
  \/ \E e \in DOMAIN ents :
       "id" \in DOMAIN ents[e].properties /\ ~ents[e].properties["id"].scalar
  \/ LET names == id_to_property(ents, entity_order(ents), "label", <<>>)
     IN  \E i \in DOMAIN names :
           names[i].value # None /\ ~names[i].value[1].scalar

\* build_term_index: term_to_ids, index_to_term and term_to_index, the indices
\* counted from 0 in the order the terms were first registered.
build_term_index(ents) ==
  IF unhashable_key(ents) THEN [outcome |-> "TypeError"]
  ELSE
    LET exact_names == id_to_property(ents, entity_order(ents), "label", <<>>)
        synonymy == id_to_property(ents, entity_order(ents), "hasExactSynonym", <<>>)
        tti == add_synonymy(synonymy, add_exact_names(exact_names, <<>>))
        keys == dict_keys(tti)
    IN  [outcome |-> "return",
         term_to_ids |-> tti,
         index_to_term |-> [i \in 0..(Len(keys) - 1) |-> keys[i + 1]],
         term_to_index |-> [k \in Range(keys) |->
                              (CHOOSE i \in DOMAIN keys : keys[i] = k) - 1]]

\* The characters of a str, as iterating over it yields them.
Chars(name) ==
  CASE name = "cardiac disease" ->
         <<"c", "a", "r", "d", "i", "a", "c", " ", "d", "i", "s", "e", "a", "s", "e">>
    [] name = "heart disease" ->
         <<"h", "e", "a", "r", "t", " ", "d", "i", "s", "e", "a", "s", "e">>
    [] name = "heart" -> <<"h", "e", "a", "r", "t">>
    [] OTHER -> <<name>>

\* TfidfVectorizer's tokens of a label: the lower-cased runs of two or more word
\* characters.
Tokens(label) ==
  CASE label = "heart disease" -> <<"heart", "disease">>
    [] label = "cardiac disease" -> <<"cardiac", "disease">>
    [] label = "heart" -> <<"heart">>
    [] label = "a" -> <<>>
    [] Chars(label) = <<label>> -> <<>>
    [] OTHER -> <<label>>

\* 10 * (ln((1 + n) / (1 + df)) + 1), rounded: the smoothed idf of a token that
\* df of n documents hold, in tenths.
IdfTenths(n, df) ==
  << <<10>>,
     <<14, 10>>,
     <<17, 13, 10>>,
     <<19, 15, 12, 10>>,
     <<21, 17, 14, 12, 10>>,
     <<23, 18, 16, 13, 12, 10>>,
     <<24, 20, 17, 15, 13, 11, 10>>,
     <<25, 21, 18, 16, 14, 13, 11, 10>>,
     <<26, 22, 19, 17, 15, 14, 12, 11, 10>>,
     <<27, 23, 20, 18, 16, 15, 13, 12, 11, 10>>,
     <<28, 24, 21, 19, 17, 15, 14, 13, 12, 11, 10>>,
     <<29, 25, 22, 20, 18, 16, 15, 14, 13, 12, 11, 10>> >>[n][df]

\* The largest r with r * r <= x, by bisection on lo <= r < hi.
RECURSIVE IsqrtIn(_, _, _)
IsqrtIn(x, lo, hi) ==
  IF hi - lo <= 1 THEN lo
  ELSE LET mid == (lo + hi) \div 2
       IN  IF mid * mid <= x THEN IsqrtIn(x, mid, hi) ELSE IsqrtIn(x, lo, mid)
Isqrt(x) == IsqrtIn(x, 0, 46341)

Vocabulary(docs) == UNION {Range(Tokens(docs[i])) : i \in DOMAIN docs}

\* tf * idf of token tok in document i of docs, in tenths
TfIdf(docs, i, tok) ==
  Cardinality({k \in DOMAIN Tokens(docs[i]) : Tokens(docs[i])[k] = tok})
  * IdfTenths(Len(docs), Cardinality({j \in DOMAIN docs : tok \in Range(Tokens(docs[j]))}))

Dot(docs, i, j) ==
  LET RECURSIVE sum(_)
      sum(toks) ==
        IF toks = {} THEN 0
        ELSE LET tok == CHOOSE t \in toks : TRUE
             IN  TfIdf(docs, i, tok) * TfIdf(docs, j, tok) + sum(toks \ {tok})
  IN  sum(Vocabulary(docs))

\* The squared L2 norms of the tf-idf rows of docs[k..]
RECURSIVE SquaredNorms(_, _)
SquaredNorms(docs, k) ==
  IF k > Len(docs) THEN <<>>
  ELSE <<Dot(docs, k, k)>> \o SquaredNorms(docs, k + 1)

\* cosine_similarity of the L2-normalised tf-idf rows whose dot product is dot
\* and whose squared norms are ni and nj, in hundredths (1.0 is 100), rounded
\* down.
Cosine(dot, ni, nj) == (100 * dot) \div Isqrt(ni * nj)

\* Row i of the sparse matrix: a (column, score) pair for every j whose score is
\* not zero.  The order of a row's entries is the sparse product's; the model
\* leaves it open between ascending and descending columns.
RECURSIVE csr_row(_, _, _, _, _)
csr_row(docs, norms, i, cols, acc) ==
  IF cols = <<>> THEN acc
  ELSE LET dot == Dot(docs, i, Head(cols))
       IN  csr_row(docs, norms, i, Tail(cols),
             IF dot > 0
             THEN Append(acc, [idx |-> Head(cols) - 1,
                               score |-> Cosine(dot, norms[i], norms[Head(cols)])])
             ELSE acc)

Ascending(n) == [i \in 1..n |-> i]
Descending(n) == [i \in 1..n |-> n + 1 - i]

\* valid_terms = [term for term in self._term_to_ids if term is not None]
RECURSIVE valid_terms(_)
valid_terms(keys) ==
  IF keys = <<>> THEN <<>>
  ELSE (IF Head(keys) = None THEN <<>> ELSE <<Head(keys)[1]>>) \o valid_terms(Tail(keys))

\* SimilaritySearch._build_matrix: what self._similarity_matrix is after it, or
\* the ValueError fit_transform raises on an empty vocabulary.
build_matrix(term_to_ids_) ==
  LET docs == valid_terms(dict_keys(term_to_ids_))
  IN  IF docs = <<>> THEN {[raised |-> FALSE, matrix |-> None]}
      ELSE IF Vocabulary(docs) = {} THEN {[raised |-> TRUE, matrix |-> None]}
      ELSE LET norms == SquaredNorms(docs, 1)
           IN  {[raised |-> FALSE,
                 matrix |-> Some([i \in DOMAIN docs |-> csr_row(docs, norms, i, cols, <<>>)])]
                : cols \in {Ascending(Len(docs)), Descending(Len(docs))}}

\* [(idx, score) for idx, score in similar_terms if score > threshold]
RECURSIVE above_threshold(_, _)
above_threshold(similar_terms, threshold) ==
  IF similar_terms = <<>> THEN <<>>
  ELSE (IF Head(similar_terms).score > threshold THEN <<Head(similar_terms)>> ELSE <<>>)
       \o above_threshold(Tail(similar_terms), threshold)

apply_threshold(similar_terms, threshold) ==
  IF threshold # None THEN above_threshold(similar_terms, threshold[1])
  ELSE similar_terms

\* sorted(similar_terms, key=score, reverse=True): stable, equal scores keep
\* their order.
RECURSIVE insert_desc(_, _)
insert_desc(sorted, x) ==
  IF sorted = <<>> THEN <<x>>
  ELSE IF Head(sorted).score >= x.score THEN <<Head(sorted)>> \o insert_desc(Tail(sorted), x)
  ELSE <<x>> \o sorted

RECURSIVE sorted_desc(_)
sorted_desc(similar_terms) ==
  IF similar_terms = <<>> THEN <<>>
  ELSE insert_desc(sorted_desc(SubSeq(similar_terms, 1, Len(similar_terms) - 1)),
                   similar_terms[Len(similar_terms)])

\* The first n entries as the matrix row lists them.
first_n(n, similar_terms) ==
  IF n <= 0 THEN <<>>
  ELSE IF n >= Len(similar_terms) THEN similar_terms
  ELSE SubSeq(similar_terms, 1, n)

\* heapq.nlargest(n, it, key) is sorted(it, key=key, reverse=True)[:n]
nlargest(n, similar_terms) ==
  LET all == sorted_desc(similar_terms)
  IN  IF n <= 0 THEN <<>>
      ELSE IF n >= Len(all) THEN all
      ELSE SubSeq(all, 1, n)

\* A selection that sorts only when n is given.
apply_top_n_unsorted(similar_terms, n) ==
  IF n # None THEN nlargest(n[1], similar_terms) ELSE similar_terms

apply_top_n(similar_terms, n) ==
  IF n # None THEN nlargest(n[1], similar_terms) ELSE sorted_desc(similar_terms)

\* if self._similarity_matrix is None: self._build_matrix()
ensure_matrix(term_to_ids_, matrix) ==
  IF matrix = None THEN build_matrix(term_to_ids_)
  ELSE {[raised |-> FALSE, matrix |-> matrix]}

\* find_similar, lines 166-203: the search for a registered term.  `ensured`
\* is ensure_matrix on the engine's state.
similar_terms_of(term_to_ids_, index_to_term_, term_to_index_, ensured, term, n, threshold) ==
  UNION {
    IF b.raised THEN {[outcome |-> "ValueError", matrix |-> b.matrix]}
    ELSE IF b.matrix = None THEN {[outcome |-> "return", result |-> <<>>, matrix |-> None]}
    ELSE
      LET rows == b.matrix[1]
          query_index == term_to_index_[Some(term)]
      IN  \* indptr holds Len(rows) + 1 offsets
          IF query_index + 1 > Len(rows)
          THEN {[outcome |-> "IndexError", matrix |-> b.matrix]}
          ELSE
            LET similar_terms ==
                  apply_top_n(apply_threshold(rows[query_index + 1], threshold), n)
            IN  {[outcome |-> "return",
                  result |-> [k \in DOMAIN similar_terms |->
                                [name |-> index_to_term_[similar_terms[k].idx],
                                 ids |-> dict_get(term_to_ids_,
                                                  index_to_term_[similar_terms[k].idx]),
                                 score |-> similar_terms[k].score]],
                  matrix |-> b.matrix]}
    : b \in ensured }

\* A find_similar that has the matrix built before it looks the term up.
find_similar_build_first(term_to_ids_, index_to_term_, term_to_index_, matrix, ensured, term, n, threshold) ==
  IF Some(term) \notin DOMAIN term_to_index_
  THEN {[outcome |-> "TermNotFoundError", matrix |-> b.matrix] : b \in ensured}
  ELSE similar_terms_of(term_to_ids_, index_to_term_, term_to_index_, ensured,
                        term, n, threshold)

\* SimilaritySearch.find_similar: the outcomes of one call, each with the
\* matrix the call leaves cached.  Only a registered term reaches `ensured`.
find_similar(term_to_ids_, index_to_term_, term_to_index_, matrix, ensured, term, n, threshold) ==
  IF Some(term) \notin DOMAIN term_to_index_
  THEN {[outcome |-> "TermNotFoundError", matrix |-> matrix]}
  ELSE similar_terms_of(term_to_ids_, index_to_term_, term_to_index_, ensured,
                        term, n, threshold)

has_term(term_to_index_, term) == Some(term) \in DOMAIN term_to_index_

\* ------------------------------------ the similarity engine's state machine
Labels == {"heart disease", "cardiac disease", "heart", "a"}

\* What the entities of the model carry: an id or none, a label or none, and
\* no exact synonym, one, or two.
SynonymValues == {None, Some(Str("cardiac disease")), Some(Lst(<<"cardiac disease", "heart">>))}

PropertiesOf(id, label, synonym) ==
  [t \in (IF id = None THEN {} ELSE {"id"})
         \cup (IF label = None THEN {} ELSE {"label"})
         \cup (IF synonym = None THEN {} ELSE {"hasExactSynonym"}) |->
     IF t = "id" THEN Str(id[1])
     ELSE IF t = "label" THEN Str(label[1])
     ELSE synonym[1]]

IdPool == <<"ID:1", "ID:2", "ID:3", "ID:4">>

\* An entity without an id is passed over by build_term_index whatever else it
\* carries: the model gives it no synonym.  Exact synonyms are carried by the
\* first entity only.
LabelledEntities ==
  UNION {
    { [e \in {URIPool[i] : i \in 1..m} |->
         [properties |-> f[e], subclasses |-> <<>>]]
      : f \in { g \in [{URIPool[i] : i \in 1..m} ->
                        { PropertiesOf(id, label, synonym) :
                            id \in {None} \cup {Some(IdPool[i]) : i \in 1..m},
                            label \in {None} \cup {Some(l) : l \in Labels},
                            synonym \in SynonymValues }] :
                  \A i \in 1..m :
                    IF "id" \in DOMAIN g[URIPool[i]]
                    THEN /\ g[URIPool[i]]["id"] = Str(IdPool[i])
                         /\ i > 1 => "hasExactSynonym" \notin DOMAIN g[URIPool[i]]
                    ELSE /\ "hasExactSynonym" \notin DOMAIN g[URIPool[i]]
                         /\ "label" \in DOMAIN g[URIPool[i]]
                              => g[URIPool[i]]["label"] = Str("heart") } }
    : m \in 0..NumSimEntities }

Thresholds == {None, Some(0), Some(50), Some(100)}
TopNs == {None} \cup {Some(k) : k \in 0..MaxTopN}

\* SimilaritySearch(*build_term_index(entities))
SimInit ==
  /\ NoFile
  /\ entities \in LabelledEntities
  /\ build_term_index(entities).outcome = "return"
  /\ term_to_ids = build_term_index(entities).term_to_ids
  /\ index_to_term = build_term_index(entities).index_to_term
  /\ term_to_index = build_term_index(entities).term_to_index
  /\ similarity_matrix = None
  /\ NoHierarchy
  /\ pc = "idle"
  /\ last = Idle

SimFindSimilar ==
  /\ pc = "idle"
  /\ LET ensured == ensure_matrix(term_to_ids, similarity_matrix)
     IN
     \E term \in Labels, n \in TopNs, threshold \in Thresholds :
       \E r \in find_similar(term_to_ids, index_to_term, term_to_index,
                             similarity_matrix, ensured, term, n, threshold) :
         /\ similarity_matrix' = r.matrix
         /\ last' = [op |-> "find_similar", term |-> term, n |-> n,
                     threshold |-> threshold, outcome |-> r.outcome,
                     result |-> IF r.outcome = "return" THEN r.result ELSE <<>>]
         /\ term_to_index' = guarded_read(term_to_index, {Some(term)})
  /\ pc' = "done"
  /\ UNCHANGED <<file, entities, hierVars, term_to_ids, index_to_term>>

SimHasTerm ==
  /\ pc = "idle"
  /\ \E term \in Labels :
       /\ last' = [op |-> "has_term", term |-> term, outcome |-> "return",
                   result |-> has_term(term_to_index, term)]
       /\ term_to_index' = guarded_read(term_to_index, {Some(term)})
  /\ pc' = "done"
  /\ UNCHANGED <<file, entities, hierVars, term_to_ids, index_to_term, similarity_matrix>>

SimNext == SimFindSimilar \/ SimHasTerm \/ Resume

SimSpec == SimInit /\ [][SimNext]_vars

\* ------------------------------ the navigator and the engine side by side
\* Both components built for one ontology, queried in any sequence: an
\* ontology of classes without labels (the term index is empty), or one of
\* labelled classes without superclasses (the hierarchy maps are empty).
QueryInit == NavInit \/ SimInit

QueryNext == NavNext \/ SimNext

QuerySpec == QueryInit /\ [][QueryNext]_vars

\* ----------------------------------- reader.py: the facade's similar terms
\* The second loop of get_name_label: None is skipped; `for name in names`
\* runs over the members of a list and over the characters of a str.
RECURSIVE reader_add_synonymy(_, _)
reader_add_synonymy(items, acc) ==
  IF items = <<>> THEN acc
  ELSE reader_add_synonymy(Tail(items),
         IF Head(items).value = None THEN acc
         ELSE add_names(IF Head(items).value[1].scalar
                        THEN Chars(Head(items).value[1].vals[1])
                        ELSE Head(items).value[1].vals,
                        Head(items).key, acc))

\* OntologyParser.get_name_label: name_ids, index_name and name_index.
get_name_label(ents) ==
  IF unhashable_key(ents) THEN [outcome |-> "TypeError"]
  ELSE
    LET exact_name == id_to_property(ents, entity_order(ents), "label", <<>>)
        synonymy == id_to_property(ents, entity_order(ents), "hasExactSynonym", <<>>)
        name_ids == reader_add_synonymy(synonymy, add_exact_names(exact_name, <<>>))
        keys == dict_keys(name_ids)
    IN  [outcome |-> "return",
         name_ids |-> name_ids,
         index_name |-> [i \in 0..(Len(keys) - 1) |-> keys[i + 1]],
         name_index |-> [k \in Range(keys) |->
                           (CHOOSE i \in DOMAIN keys : keys[i] = k) - 1]]

\* OntologyParser.vectorise_labels: every key of name_ids is a document.  A
\* None key fails in the vectoriser's lower-casing, an empty vocabulary in
\* fit_transform; otherwise the matrix is cached.
vectorise_labels(name_ids) ==
  LET keys == dict_keys(name_ids)
      docs == valid_terms(keys)
  IN  IF None \in Range(keys) THEN {[raised |-> Some("AttributeError"), matrix |-> None]}
      ELSE IF Vocabulary(docs) = {} THEN {[raised |-> Some("ValueError"), matrix |-> None]}
      ELSE LET norms == SquaredNorms(docs, 1)
           IN  {[raised |-> None,
                 matrix |-> Some([i \in DOMAIN docs |-> csr_row(docs, norms, i, cols, <<>>)])]
                : cols \in {Ascending(Len(docs)), Descending(Len(docs))}}

\* OntologyParser.get_similar_terms: the outcomes of one call, each with the
\* matrix the call leaves cached.  The term is looked up with name_index[term]
\* before anything else.
get_similar_terms(name_ids, index_name, name_index, matrix, term, n, threshold) ==
  IF Some(term) \notin DOMAIN name_index
  THEN {[outcome |-> "KeyError", matrix |-> matrix]}
  ELSE
    UNION {
      IF b.raised # None THEN {[outcome |-> b.raised[1], matrix |-> b.matrix]}
      ELSE
        LET query_index == name_index[Some(term)]
            similar_terms ==
              apply_top_n(apply_threshold(b.matrix[1][query_index + 1], threshold), n)
        IN  {[outcome |-> "return",
              result |-> [k \in DOMAIN similar_terms |->
                            [name |-> index_name[similar_terms[k].idx],
                             ids |-> dict_get(name_ids, index_name[similar_terms[k].idx]),
                             score |-> similar_terms[k].score]],
              matrix |-> b.matrix]}
      : b \in IF matrix = None THEN vectorise_labels(name_ids)
              ELSE {[raised |-> None, matrix |-> matrix]} }

\* OntologyParser.__init__, lines 45-47: the variables of the similarity
\* engine hold the facade's name_ids, index_name, name_index and
\* similarity_matrix.
TermsInit ==
  /\ NoFile
  /\ entities \in LabelledEntities
  /\ get_name_label(entities).outcome = "return"
  /\ term_to_ids = get_name_label(entities).name_ids
  /\ index_to_term = get_name_label(entities).index_name
  /\ term_to_index = get_name_label(entities).name_index
  /\ similarity_matrix = None
  /\ NoHierarchy
  /\ pc = "idle"
  /\ last = Idle

TermsGetSimilarTerms ==
  /\ pc = "idle"
  /\ \E term \in Labels, n \in TopNs, threshold \in Thresholds :
       \E r \in get_similar_terms(term_to_ids, index_to_term, term_to_index,
                                  similarity_matrix, term, n, threshold) :
         /\ similarity_matrix' = r.matrix
         /\ last' = [op |-> "get_similar_terms", term |-> term, n |-> n,
                     threshold |-> threshold, outcome |-> r.outcome,
                     result |-> IF r.outcome = "return" THEN r.result ELSE <<>>]
  /\ pc' = "done"
  /\ UNCHANGED <<file, entities, hierVars, term_to_ids, index_to_term, term_to_index>>

TermsNext == TermsGetSimilarTerms \/ Resume

TermsSpec == TermsInit /\ [][TermsNext]_vars

\* ---------------------------------------------------------- parsing.py
\* An XML element as lxml presents it: a namespace URI and local name (its
\* tag is "{ns}tag"), attributes by namespace and name, text (None when
\* empty), children.  A comment is a child too: its tag is not a string.
Attr(ns, name, value) == [ns |-> ns, name |-> name, value |-> value]
Element(ns, tag, attrib, text, children) ==
  [comment |-> FALSE, ns |-> ns, tag |-> tag, attrib |-> attrib,
   text |-> text, children |-> children]
Comment(text) ==
  [comment |-> TRUE, ns |-> "", tag |-> "", attrib |-> {},
   text |-> Some(text), children |-> <<>>]

\* element.get("{ns}name"): the attribute's value, or None
elem_get(element, ns, name) ==
  LET hits == {a \in element.attrib : a.ns = ns /\ a.name = name}
  IN  IF hits = {} THEN None ELSE Some((CHOOSE a \in hits : TRUE).value)

\* Python truth of an optional string: neither None nor ""
truthy(opt) == opt # None /\ opt[1] # ""

\* str.strip() on the texts of the model
strip(text) ==
  CASE text = " heart " -> "heart"
    [] text = " " -> ""
    [] OTHER -> text

\* The path compiler of element.findall / element.find resolves the prefix
\* first: a prefix missing from the map is a SyntaxError, whatever the
\* element holds.
findall_raises(namespace_map, prefix) ==
  IF prefix \in DOMAIN namespace_map THEN None ELSE Some("SyntaxError")

\* element.findall("prefix:tag", namespace_map), the prefix being declared
findall(element, namespace_map, prefix, tag) ==
  SelectSeq(element.children,
            LAMBDA c : ~c.comment /\ c.ns = namespace_map[prefix] /\ c.tag = tag)

\* element.find("prefix:tag", namespace_map): the first match, or None
find(element, namespace_map, prefix, tag) ==
  LET all == findall(element, namespace_map, prefix, tag)
  IN  IF all = <<>> THEN None ELSE Some(all[1])

\* The first exception of a sequence of steps, None when no step raises.
RECURSIVE first_raised(_)
first_raised(steps) ==
  IF steps = <<>> THEN None
  ELSE IF Head(steps) # None THEN Head(steps)
  ELSE first_raised(Tail(steps))

\* child.tag.split("}") of a comment child: its tag is a function object.
tag_split_raises(children) ==
  IF \E i \in DOMAIN children : children[i].comment
  THEN Some("AttributeError") ELSE None

\* _extract_properties, lines 214-227: what the children of one local tag
\* name accumulate, in document order.
RECURSIVE accumulate(_, _, _, _)
accumulate(children, tag, namespace_map, acc) ==
  IF children = <<>> THEN acc
  ELSE
    LET child == Head(children)
        resource == elem_get(child, namespace_map["rdf"], "resource")
        text == IF truthy(child.text) THEN <<strip(child.text[1])>> ELSE <<>>
        ref == IF truthy(resource) THEN <<resource[1]>> ELSE <<>>
    IN  IF child.tag = tag /\ child.ns \in Range(namespace_map)
        THEN accumulate(Tail(children), tag, namespace_map, acc \o text \o ref)
        ELSE accumulate(Tail(children), tag, namespace_map, acc)

\* The properties left as the lists they were accumulated in.
extract_properties_as_lists(element, namespace_map) ==
  LET children == element.children
      tags == {children[i].tag :
                 i \in {j \in DOMAIN children : children[j].ns \in Range(namespace_map)}}
  IN  [tag \in tags |-> Lst(accumulate(children, tag, namespace_map, <<>>))]

\* _extract_properties: single-value lists collapse to the value.
extract_properties(element, namespace_map) ==
  LET children == element.children
      tags == {children[i].tag :
                 i \in {j \in DOMAIN children : children[j].ns \in Range(namespace_map)}}
      values(tag) == accumulate(children, tag, namespace_map, <<>>)
  IN  [tag \in tags |->
         IF Len(values(tag)) = 1 THEN Str(values(tag)[1]) ELSE Lst(values(tag))]

\* item.tag.endswith("Description") or "Restriction" in item.tag
is_description_or_restriction(item) ==
  item.tag \in {"Description", "Restriction"}

\* _parse_restriction_or_intersection: the Restriction dicts found.
RECURSIVE parse_restriction_or_intersection(_, _)
parse_restriction_or_intersection(element, namespace_map) ==
  LET rdf == namespace_map["rdf"]
      intersection == find(element, namespace_map, "owl", "intersectionOf")
      restriction == find(element, namespace_map, "owl", "Restriction")
      RECURSIVE extend(_, _)
      extend(items, parsed_data) ==
        IF items = <<>> THEN parsed_data
        ELSE IF is_description_or_restriction(Head(items))
        THEN extend(Tail(items),
                    parsed_data \o parse_restriction_or_intersection(Head(items), namespace_map))
        ELSE extend(Tail(items), parsed_data)
      ref(elem) == IF elem # None THEN elem_get(elem[1], rdf, "resource") ELSE None
  IN  IF intersection # None
      THEN IF elem_get(intersection[1], rdf, "parseType") = Some("Collection")
           THEN extend(intersection[1].children, <<>>)
           ELSE <<>>
      ELSE IF restriction # None
      THEN <<RestrictionDict(ref(find(restriction[1], namespace_map, "owl", "onProperty")),
                             ref(find(restriction[1], namespace_map, "owl", "someValuesFrom")))>>
      ELSE <<>>

\* _parse_restriction_or_intersection reads item.tag of every member of a
\* Collection, comments included.
RECURSIVE parse_restriction_raises(_, _)
parse_restriction_raises(element, namespace_map) ==
  LET intersection == find(element, namespace_map, "owl", "intersectionOf")
  IN  IF /\ intersection # None
         /\ elem_get(intersection[1], namespace_map["rdf"], "parseType") = Some("Collection")
         /\ \E i \in DOMAIN intersection[1].children :
              LET item == intersection[1].children[i]
              IN  \/ item.comment
                  \/ /\ is_description_or_restriction(item)
                     /\ parse_restriction_raises(item, namespace_map) # None
      THEN Some("AttributeError") ELSE None

\* enums.py
SynonymType == {"hasExactSynonym", "hasNarrowSynonym", "hasBroadSynonym"}
MatchType == {"exactMatch", "closeMatch", "narrowMatch", "broadMatch"}

\* [f(x) for x in xs if x is not None], for a sequence of optional values
RECURSIVE present(_)
present(opts) ==
  IF opts = <<>> THEN <<>>
  ELSE (IF Head(opts) # None THEN <<Head(opts)[1]>> ELSE <<>>) \o present(Tail(opts))

\* _extract_synonyms: every synonym kind, its children's stripped texts
extract_synonyms(element, namespace_map) ==
  [synonym_type \in SynonymType |->
     LET found == findall(element, namespace_map, "oboInOwl", synonym_type)
     IN  present([i \in DOMAIN found |->
                    IF found[i].text # None THEN Some(strip(found[i].text[1])) ELSE None])]

\* _extract_matches: empty without a skos namespace; the reference is read
\* from the attribute "{skos namespace}resource".
extract_matches(element, namespace_map) ==
  IF "skos" \notin DOMAIN namespace_map THEN [match_type \in {} |-> <<>>]
  ELSE
    [match_type \in MatchType |->
       LET found == findall(element, namespace_map, "skos", match_type)
       IN  present([i \in DOMAIN found |->
                      elem_get(found[i], namespace_map["skos"], "resource")])]

\* _extract_entity, lines 119-128: a reference, or the restrictions of a
\* nested structure when it has any.
RECURSIVE extract_subclasses(_, _)
extract_subclasses(found, namespace_map) ==
  IF found = <<>> THEN <<>>
  ELSE
    LET subclass == Head(found)
        subclass_ref == elem_get(subclass, namespace_map["rdf"], "resource")
        restriction_data == parse_restriction_or_intersection(subclass, namespace_map)
    IN  (IF truthy(subclass_ref) THEN <<StrItem(subclass_ref[1])>>
         ELSE IF restriction_data # <<>> THEN <<ListItem(restriction_data)>>
         ELSE <<>>)
        \o extract_subclasses(Tail(found), namespace_map)

extract_entity(element, namespace_map) ==
  LET disjoint == findall(element, namespace_map, "owl", "disjointWith")
  IN  [properties |-> extract_properties(element, namespace_map),
       subclasses |-> extract_subclasses(
                        findall(element, namespace_map, "rdfs", "subClassOf"),
                        namespace_map),
       disjoints |-> present([i \in DOMAIN disjoint |->
                                elem_get(disjoint[i], namespace_map["rdf"], "resource")]),
       synonyms |-> extract_synonyms(element, namespace_map),
       matches |-> extract_matches(element, namespace_map)]

\* The exceptions of _extract_entity, in the order its steps run.
extract_entity_raises(element, namespace_map) ==
  first_raised(<<
    tag_split_raises(element.children),
    findall_raises(namespace_map, "rdfs"),
    IF findall_raises(namespace_map, "rdfs") # None THEN None
    ELSE LET found == findall(element, namespace_map, "rdfs", "subClassOf")
         IN  first_raised([i \in DOMAIN found |->
               IF truthy(elem_get(found[i], namespace_map["rdf"], "resource")) THEN None
               ELSE parse_restriction_raises(found[i], namespace_map)]),
    findall_raises(namespace_map, "oboInOwl") >>)

\* _extract_all_entities: a later class of the same rdf:about replaces an
\* earlier one; a class without the attribute, or with "", is skipped.
\* The classes that carry an rdf:about attribute, empty or not.
identified_or_empty(root, namespace_map) ==
  SelectSeq(findall(root, namespace_map, "owl", "Class"),
            LAMBDA c : elem_get(c, namespace_map["rdf"], "about") # None)

identified(root, namespace_map) ==
  SelectSeq(findall(root, namespace_map, "owl", "Class"),
            LAMBDA c : truthy(elem_get(c, namespace_map["rdf"], "about")))

extract_all_entities(root, namespace_map) ==
  LET classes == identified(root, namespace_map)
      about(c) == elem_get(c, namespace_map["rdf"], "about")[1]
      last_of(entity_id) ==
        classes[CHOOSE i \in DOMAIN classes :
                  /\ about(classes[i]) = entity_id
                  /\ \A j \in DOMAIN classes : about(classes[j]) = entity_id => j <= i]
  IN  [entity_id \in {about(classes[i]) : i \in DOMAIN classes} |->
         extract_entity(last_of(entity_id), namespace_map)]

extract_all_entities_raises(root, namespace_map) ==
  IF findall_raises(namespace_map, "owl") # None THEN findall_raises(namespace_map, "owl")
  ELSE LET classes == identified(root, namespace_map)
       IN  first_raised([i \in DOMAIN classes |->
                           extract_entity_raises(classes[i], namespace_map)])

\* _extract_all_relations, lines 178-180: the children with text, by local
\* tag name; a later child of the same name replaces an earlier one.
obj_properties(obj_prop) ==
  LET children == obj_prop.children
      texts == {i \in DOMAIN children : truthy(children[i].text)}
  IN  [tag \in {children[i].tag : i \in texts} |->
         strip(children[CHOOSE i \in texts :
                          /\ children[i].tag = tag
                          /\ \A j \in texts : children[j].tag = tag => j <= i].text[1])]

extract_all_relations(root, namespace_map) ==
  LET found == SelectSeq(findall(root, namespace_map, "owl", "ObjectProperty"),
                         LAMBDA p : truthy(elem_get(p, namespace_map["rdf"], "about")))
      ref(elem) ==
        IF elem # None THEN elem_get(elem[1], namespace_map["rdf"], "resource") ELSE None
  IN  [i \in DOMAIN found |->
         [predicate |-> elem_get(found[i], namespace_map["rdf"], "about")[1],
          domain |-> ref(find(found[i], namespace_map, "rdfs", "domain")),
          range |-> ref(find(found[i], namespace_map, "rdfs", "range")),
          properties |-> obj_properties(found[i])]]

extract_all_relations_raises(root, namespace_map) ==
  LET found == SelectSeq(findall(root, namespace_map, "owl", "ObjectProperty"),
                         LAMBDA p : truthy(elem_get(p, namespace_map["rdf"], "about")))
  IN  first_raised([i \in DOMAIN found |->
        first_raised(<<
          findall_raises(namespace_map, "rdfs"),
          tag_split_raises(SelectSeq(found[i].children, LAMBDA c : truthy(c.text))) >>)])

\* parse_owl_file, lines 54-56: the root's nsmap without the default
\* namespace (key None) and without empty values.
namespace_map_of(nsmap) ==
  LET kept == {d \in nsmap : d.key # None /\ d.value # ""}
  IN  [prefix \in {d.key[1] : d \in kept} |->
         (CHOOSE d \in kept : d.key[1] = prefix).value]

\* What parse_owl_file raised, or its three results.
Raised(exception) ==
  [outcome |-> exception, entities |-> <<>>, relations |-> <<>>, namespace_map |-> <<>>]

\* etree.parse raises OSError for a file it cannot read and XMLSyntaxError
\* for one that is not well-formed; line 48 catches the second.
parse_owl_file(f) ==
  IF ~f.exists THEN Raised("OntologyParseError")
  ELSE IF ~f.is_file THEN Raised("OntologyParseError")
  ELSE IF ~f.readable THEN Raised("OSError")
  ELSE IF f.document = None THEN Raised("OntologyParseError")
  ELSE
    LET root == f.document[1].root
        namespace_map == namespace_map_of(f.document[1].nsmap)
    IN  IF "rdf" \notin DOMAIN namespace_map THEN Raised("OntologyParseError")
        ELSE IF extract_all_entities_raises(root, namespace_map) # None
        THEN Raised(extract_all_entities_raises(root, namespace_map)[1])
        ELSE IF extract_all_relations_raises(root, namespace_map) # None
        THEN Raised(extract_all_relations_raises(root, namespace_map)[1])
        ELSE [outcome |-> "return",
              entities |-> extract_all_entities(root, namespace_map),
              relations |-> extract_all_relations(root, namespace_map),
              namespace_map |-> namespace_map]

\* ---- the documents of the model
RDF == "rdf#"
RDFS == "rdfs#"
OWL == "owl#"
OBO_IN_OWL == "oboInOwl#"
SKOS == "skos#"

Leaf(ns, tag, attrib, text) == Element(ns, tag, attrib, text, <<>>)
Resource(value) == {Attr(RDF, "resource", value)}
OnP == Leaf(OWL, "onProperty", Resource("P"), None)
SomeC == Leaf(OWL, "someValuesFrom", Resource("C"), None)
Restriction(children) == Element(OWL, "Restriction", {}, None, children)
Description(attrib, children) == Element(RDF, "Description", attrib, None, children)
Collection(members) ==
  Element(OWL, "intersectionOf", {Attr(RDF, "parseType", "Collection")}, None, members)
SubClassOf(attrib, children) == Element(RDFS, "subClassOf", attrib, None, children)

\* The children a class element of the model holds.
ClassBodies ==
  << <<>>,
     << Leaf(RDFS, "label", {}, Some(" heart ")),
        Leaf(OBO_IN_OWL, "id", {}, Some("ID:1")) >>,
     << Leaf(RDFS, "label", {}, Some("heart")),
        Leaf(RDFS, "label", {}, Some("cardiac disease")),
        Leaf(RDFS, "seeAlso", Resource("B"), None),
        Leaf(RDFS, "isDefinedBy", Resource("B"), Some("x")),
        Leaf(RDFS, "comment", {}, Some(" ")),
        Leaf(OWL, "deprecated", {}, None),
        Leaf("other#", "label", {}, Some("x")),
        Leaf("", "note", {}, Some("x")) >>,
     << SubClassOf(Resource("B"), <<>>),
        SubClassOf({}, <<Restriction(<<OnP, SomeC>>)>>),
        SubClassOf(Resource(""), <<>>),
        Leaf(OWL, "disjointWith", Resource("B"), None),
        Leaf(OWL, "disjointWith", Resource("B"), None),
        Leaf(OWL, "disjointWith", Resource("C"), None),
        Leaf(OWL, "disjointWith", {}, None) >>,
     << SubClassOf({}, <<Collection(<<
          Description({Attr(RDF, "about", "B")}, <<>>),
          Restriction(<<OnP>>),
          Description({}, <<Restriction(<<OnP, SomeC>>)>>),
          Description({}, <<Collection(<<Description({}, <<Restriction(<<SomeC>>)>>)>>)>>)
          >>)>>),
        SubClassOf({}, <<Element(OWL, "Class", {}, None,
                                 <<Collection(<<Restriction(<<OnP, SomeC>>)>>)>>)>>) >>,
     << Leaf(OBO_IN_OWL, "hasExactSynonym", {}, Some(" heart ")),
        Leaf(OBO_IN_OWL, "hasExactSynonym", {}, None),
        Leaf(OBO_IN_OWL, "hasBroadSynonym", {}, Some("cardiac disease")),
        Leaf(SKOS, "exactMatch", Resource("B"), None),
        Leaf(SKOS, "closeMatch", {Attr(SKOS, "resource", "C")}, None) >>,
     << Comment("note"), Leaf(RDFS, "label", {}, Some("heart")) >>,
     << SubClassOf({}, <<Collection(<<
          Comment("note"), Description({}, <<Restriction(<<OnP, SomeC>>)>>) >>)>>) >> >>

\* Every class body may open a document; the classes after the first hold
\* one of the first two bodies.
LaterBodies == {ClassBodies[1], ClassBodies[2]}
Abouts == {{}} \cup {{Attr(RDF, "about", a)} : a \in {"", "A", "B"}}
Classes(bodies) == {Element(OWL, "Class", attrib, None, body) : attrib \in Abouts, body \in bodies}

ClassLists ==
  UNION { {cs \in [1..m -> Classes(Range(ClassBodies))] :
             \A i \in 2..m : cs[i] \in Classes(LaterBodies)}
          : m \in 0..MaxClasses }

ObjectProperty(attrib, children) == Element(OWL, "ObjectProperty", attrib, None, children)

ObjectPropertyLists ==
  { <<>>,
    << ObjectProperty({Attr(RDF, "about", "P")},
         << Leaf(RDFS, "domain", Resource("A"), None),
            Leaf(RDFS, "range", Resource("B"), None),
            Leaf(RDFS, "label", {}, Some(" heart ")),
            Leaf(RDFS, "label", {}, Some("heart")) >>) >>,
    << ObjectProperty({Attr(RDF, "about", "P")}, <<Leaf(RDFS, "range", {}, None)>>) >>,
    << ObjectProperty({}, <<Leaf(RDFS, "domain", Resource("A"), None)>>) >>,
    << ObjectProperty({Attr(RDF, "about", "P")}, <<Comment("note")>>) >> }

Declared(prefix, uri) == [key |-> Some(prefix), value |-> uri]
AllDeclared ==
  {Declared("rdf", RDF), Declared("rdfs", RDFS), Declared("owl", OWL),
   Declared("oboInOwl", OBO_IN_OWL), Declared("skos", SKOS)}

\* The root declares all five prefixes, all but one, all and a default
\* namespace, or none; an element of a prefix the root leaves out declares it
\* itself.
NamespaceMaps ==
  {AllDeclared, {}, AllDeclared \cup {[key |-> None, value |-> OWL]}}
  \cup {AllDeclared \ {d} : d \in AllDeclared}

Documents ==
  { [nsmap |-> nsmap,
     root |-> Element(RDF, "RDF", {}, None,
                      <<Leaf(OWL, "Ontology", {Attr(RDF, "about", "O")}, None)>>
                      \o classes \o properties)]
    : nsmap \in NamespaceMaps, classes \in ClassLists, properties \in ObjectPropertyLists }

File(exists, is_file, readable, document) ==
  [exists |-> exists, is_file |-> is_file, readable |-> readable, document |-> document]

EmptyOntology ==
  [nsmap |-> AllDeclared,
   root |-> Element(RDF, "RDF", {}, None,
                    <<Leaf(OWL, "Ontology", {Attr(RDF, "about", "O")}, None)>>)]

\* Nothing at the path; a directory; a regular file the process may not read
\* (well-formed or not); a readable file that is not well-formed XML; a
\* readable document.
Files ==
  { File(FALSE, FALSE, FALSE, None),
    File(TRUE, FALSE, TRUE, None),
    File(TRUE, TRUE, FALSE, None),
    File(TRUE, TRUE, FALSE, Some(EmptyOntology)),
    File(TRUE, TRUE, TRUE, None) }
  \cup {File(TRUE, TRUE, TRUE, Some(d)) : d \in Documents}

ParseInit ==
  /\ file \in Files
  /\ entities = <<>>
  /\ NoHierarchy
  /\ NoSimilarity
  /\ pc = "idle"
  /\ last = Idle

ParseOwlFile ==
  /\ pc = "idle"
  /\ LET r == parse_owl_file(file)
     IN  last' = [op |-> "parse_owl_file", outcome |-> r.outcome,
                  entities |-> r.entities, relations |-> r.relations,
                  namespace_map |-> r.namespace_map]
  /\ pc' = "done"
  /\ UNCHANGED <<file, entities, hierVars, simVars>>

ParseNext == ParseOwlFile \/ Resume

ParseSpec == ParseInit /\ [][ParseNext]_vars

\* ------------------------------------------------------ graph vocabulary
\* The class -> superclass references of the document: the plain URI entries of
\* the entities' subclass lists.
SuperEdges ==
  UNION { {<<u, entities[u].subclasses[i].value>> :
             i \in {j \in DOMAIN entities[u].subclasses :
                      entities[u].subclasses[j].kind = "str"}}
          : u \in DOMAIN entities }

\* The URIs one or more edges of E away from u.
RECURSIVE Closure(_, _)
Closure(E, S) ==
  LET next == S \cup {e[2] : e \in {d \in E : d[1] \in S}}
  IN  IF next = S THEN S ELSE Closure(E, next)

ReachFrom(E, u) == Closure(E, {e[2] : e \in {d \in E : d[1] = u}})

Inverse(E) == {<<e[2], e[1]>> : e \in E}

HasCycle(E) == \E u \in URIs : u \in ReachFrom(E, u)

NoDuplicates(s) == \A i, j \in DOMAIN s : s[i] = s[j] => i = j

NavDone(op) == pc = "done" /\ last.op = op

\* ------------------------------------------------------------ claims

\* C1: on an acyclic hierarchy (references to URIs that are no entity allowed),
\* get_ancestors(id, -1) returns exactly the URIs one or more class -> superclass
\* edges away from id, and get_descendants(id, -1) exactly the URIs one or more
\* reverse edges away.
C1_UnlimitedIsReachability ==
  (pc = "done" /\ last.op \in {"get_ancestors", "get_descendants"}
     /\ last.max_depth = UNLIMITED_DEPTH)
  => LET edges == SuperEdges
     IN  ~HasCycle(edges)
         => /\ last.op = "get_ancestors"
                 => Range(last.result) = ReachFrom(edges, last.entity_id)
            /\ last.op = "get_descendants"
                 => Range(last.result) = ReachFrom(Inverse(edges), last.entity_id)

\* A subClassOf B and C, B subClassOf C, C no entity: ancestors(A) = {B, C}.
C1_Witness ==
  /\ NavDone("get_ancestors")
  /\ last.max_depth = UNLIMITED_DEPTH
  /\ last.entity_id = "A"
  /\ DOMAIN entities = {"A", "B"}
  /\ SuperEdges = {<<"A", "B">>, <<"A", "C">>, <<"B", "C">>}
  /\ Range(last.result) = {"B", "C"}

\* C2: the list get_ancestors or get_descendants returns never contains the
\* entity the walk started from.
C2_NeverContainsSelf ==
  (pc = "done" /\ last.op \in {"get_ancestors", "get_descendants"})
  => last.entity_id \notin Range(last.result)

\* C3: on a hierarchy with a directed cycle, an unlimited walk ends with a list:
\* it expanded no entity twice (so at most one expansion per URI), and the list
\* holds no URI twice.
C3_CycleSafe ==
  (pc = "done" /\ last.op \in {"get_ancestors", "get_descendants"}
     /\ last.max_depth = UNLIMITED_DEPTH
     /\ LET edges == SuperEdges IN HasCycle(edges))
  => /\ NoDuplicates(last.expanded)
     /\ Len(last.expanded) <= Cardinality(URIs)
     /\ NoDuplicates(last.result)
     /\ Range(last.result) \subseteq URIs

\* A subClassOf B, B subClassOf A: get_ancestors(A, -1) has ended, having
\* expanded A and B once each.
C3_Witness ==
  /\ NavDone("get_ancestors")
  /\ last.max_depth = UNLIMITED_DEPTH
  /\ last.entity_id = "A"
  /\ SuperEdges = {<<"A", "B">>, <<"B", "A">>}
  /\ last.expanded = <<"A", "B">>

\* C4: if B is in get_ancestors(A, max_depth=1) then A is in
\* get_descendants(B, max_depth=1), whatever order the walks take.
C4_DepthOneSymmetry ==
  (pc = "done" /\ last.op = "get_ancestors" /\ last.max_depth = 1)
  => \A B \in Range(last.result) :
       \A r \in get_descendants(reverse_map, B, 1) :
         last.entity_id \in Range(r.result)

\* A subClassOf B, B subClassOf C: get_ancestors(A, 1) holds C.
C4_Witness ==
  /\ NavDone("get_ancestors")
  /\ last.max_depth = 1
  /\ last.entity_id = "A"
  /\ SuperEdges = {<<"A", "B">>, <<"B", "C">>}
  /\ "C" \in Range(last.result)

\* C5: get_parents, get_children and get_entity_relations of the facade, called
\* with an id that is no key of the entity map, fail with EntityNotFoundError.
C5_UnknownIdRaises ==
  (pc = "done" /\ last.op \in {"get_parents", "get_children", "get_entity_relations"}
     /\ last.entity_id \notin DOMAIN entities)
  => last.outcome = "EntityNotFoundError"

\* C6: a find_similar call with a term that is not in the label index fails
\* with TermNotFoundError, whatever n and threshold, and leaves the matrix
\* cache as it found it: unbuilt stays unbuilt, built stays the same matrix.
C6_UnknownTermLeavesCache ==
  [][(pc = "idle" /\ pc' = "done" /\ last'.op = "find_similar"
        /\ Some(last'.term) \notin DOMAIN term_to_index)
     => (last'.outcome = "TermNotFoundError"
           /\ similarity_matrix' = similarity_matrix)]_vars

\* The index holds terms a matrix can be built from, the looked-up term is
\* none of them, the call has failed and the matrix is still unbuilt.
C6_Witness ==
  /\ pc = "done"
  /\ last.op = "find_similar"
  /\ Some(last.term) \notin DOMAIN term_to_index
  /\ last.outcome = "TermNotFoundError"
  /\ similarity_matrix = None
  /\ \E b \in build_matrix(term_to_ids) : ~b.raised /\ b.matrix # None

\* The cases of C7: nothing at the path, no regular file, a file that cannot
\* be read, a document that is not well-formed, a root without the rdf prefix.
UnusableFile ==
  \/ ~file.exists
  \/ ~file.is_file
  \/ ~file.readable
  \/ file.document = None
  \/ "rdf" \notin DOMAIN namespace_map_of(file.document[1].nsmap)

\* C7: in each of those cases parse_owl_file fails with OntologyParseError and
\* no other error, and returns no entities, relations or namespace map.
C7_OnlyOntologyParseError ==
  (pc = "done" /\ last.op = "parse_owl_file" /\ UnusableFile)
  => /\ last.outcome = "OntologyParseError"
     /\ last.entities = <<>>
     /\ last.relations = <<>>
     /\ last.namespace_map = <<>>


\* C8: for an entity id of the entity map, get_entity_relations reports as
\* superclasses exactly the URIs one forward edge away and as subclasses exactly
\* the URIs one reverse edge away.
C8_RelationsAreDirect ==
  (pc = "done" /\ last.op = "get_entity_relations"
     /\ last.entity_id \in DOMAIN entities)
  => /\ last.outcome = "return"
     /\ last.result.superclasses = {e[2] : e \in {d \in SuperEdges : d[1] = last.entity_id}}
     /\ last.result.subclasses = {e[1] : e \in {d \in SuperEdges : d[2] = last.entity_id}}

\* The result of find_similar(term, n=None, threshold) on the engine as the
\* call left it (the matrix is cached: the row order is settled).
FullResults ==
  find_similar(term_to_ids, index_to_term, term_to_index, similarity_matrix,
               ensure_matrix(term_to_ids, similarity_matrix),
               last.term, None, last.threshold)

Min(a, b) == IF a <= b THEN a ELSE b

\* C9: for a registered term, a threshold x (or none) and n = k >= 0, the
\* entries find_similar returns are entries of find_similar(term, threshold=x),
\* min(k, that result's length) of them, each with a score above x, and no
\* entry left out has a greater score than one returned.
C9_TopNOfThresholded ==
  (pc = "done" /\ last.op = "find_similar" /\ last.outcome = "return" /\ last.n # None)
  => \A full \in FullResults :
       /\ full.outcome = "return"
       /\ Range(last.result) \subseteq Range(full.result)
       /\ Len(last.result) = Min(last.n[1], Len(full.result))
       /\ last.threshold # None
            => \A i \in DOMAIN last.result : last.result[i].score > last.threshold[1]
       /\ \A j \in DOMAIN full.result :
            full.result[j] \notin Range(last.result)
              => \A i \in DOMAIN last.result :
                   full.result[j].score <= last.result[i].score

\* n = 1 with a threshold: one entry returned, a lower-scored entry above the
\* threshold left out, and a third entry of the row below the threshold.
C9_Witness ==
  /\ pc = "done"
  /\ last.op = "find_similar"
  /\ last.outcome = "return"
  /\ last.n = Some(1)
  /\ last.threshold # None
  /\ Len(last.result) = 1
  /\ \E full \in FullResults :
       /\ Len(full.result) >= 2
       /\ full.result[2].score < last.result[1].score
  /\ \E all \in find_similar(term_to_ids, index_to_term, term_to_index, similarity_matrix,
                             ensure_matrix(term_to_ids, similarity_matrix),
                             last.term, None, None) :
       \E i \in DOMAIN all.result : all.result[i].score <= last.threshold[1]

\* C10: whatever n and threshold are, given or not, the list find_similar
\* returns for a registered term is in order of non-increasing score.
C10_SortedByScore ==
  (pc = "done" /\ last.op = "find_similar" /\ last.outcome = "return")
  => \A i \in 1..(Len(last.result) - 1) :
       last.result[i].score >= last.result[i + 1].score

\* Neither n nor threshold given, three entries returned, not all of one score.
C10_Witness ==
  /\ pc = "done"
  /\ last.op = "find_similar"
  /\ last.outcome = "return"
  /\ last.n = None
  /\ last.threshold = None
  /\ Len(last.result) >= 3
  /\ last.result[1].score > last.result[Len(last.result)].score

\* C11: the matrix is absent after construction; has_term never builds it; the
\* first find_similar call on a registered term builds it; once built, no
\* later call rebuilds or replaces it.
C11_MatrixBuiltOnce ==
  /\ similarity_matrix = None
  /\ [][/\ (pc' = "done" /\ last'.op = "has_term")
             => similarity_matrix' = similarity_matrix
        /\ (pc' = "done" /\ last'.op = "find_similar"
              /\ Some(last'.term) \in DOMAIN term_to_index
              /\ similarity_matrix = None)
             => similarity_matrix' # None
        /\ similarity_matrix # None
             => similarity_matrix' = similarity_matrix]_vars


\* The strings an entity carries under a property: none, one, or a list's.
StringsOf(props, tag) ==
  IF tag \in DOMAIN props THEN Range(props[tag].vals) ELSE {}

\* C12: every entity's label and each of its exact synonyms is a key of the
\* term index whose set holds the entity's key in the entity map, and the
\* index maps a term to no entity that carries it neither as label nor as
\* exact synonym.
C12_TermIndexHoldsEntityIds ==
  /\ \A e \in DOMAIN entities :
       \A name \in StringsOf(entities[e].properties, "label")
                     \cup StringsOf(entities[e].properties, "hasExactSynonym") :
         /\ dict_has(term_to_ids, Some(name))
         /\ e \in dict_get(term_to_ids, Some(name))
  /\ \A i \in DOMAIN term_to_ids :
       \A id \in term_to_ids[i].value :
         /\ id \in DOMAIN entities
         /\ term_to_ids[i].key # None
         /\ term_to_ids[i].key[1]
              \in StringsOf(entities[id].properties, "label")
                    \cup StringsOf(entities[id].properties, "hasExactSynonym")

\* The cosine score of two labels among the labels the matrix is built from.
ScoreOf(t, name) ==
  LET docs == valid_terms(dict_keys(term_to_ids))
      at(label) == CHOOSE i \in DOMAIN docs : docs[i] = label
  IN  Cosine(Dot(docs, at(t), at(name)), Dot(docs, at(t), at(t)),
             Dot(docs, at(name), at(name)))

\* C13: for a registered label t, the matrix has the row term_to_index[t], and
\* every entry find_similar(t) returns carries the score of t against the
\* entry's own name.
C13_RowsMatchLabels ==
  (pc = "done" /\ last.op = "find_similar" /\ Some(last.term) \in DOMAIN term_to_index)
  => /\ last.outcome # "IndexError"
     /\ \A k \in DOMAIN last.result :
          /\ last.result[k].name # None
          /\ last.result[k].score = ScoreOf(last.term, last.result[k].name[1])

\* C14: has_entity(id) is true exactly when id references a plain-URI
\* superclass or is referenced as one: false for an entity of the entity map
\* with no hierarchy relation, true for a URI that is no entity and is
\* somebody's superclass.
C14_HasEntityIsHierarchyMembership ==
  NavDone("has_entity")
  => LET edges == SuperEdges
     IN  last.result = (\E edge \in edges :
                          edge[1] = last.entity_id \/ edge[2] = last.entity_id)

C14_Witness ==
  /\ NavDone("has_entity")
  /\ last.entity_id \notin DOMAIN entities
  /\ last.result

\* C15: for a readable well-formed document that declares rdf, whichever of the
\* other prefixes the root declares or omits, parse_owl_file fails on no
\* prefix, and every entity it returns has a synonyms mapping with all three
\* synonym kinds.
C15_OptionalPrefixes ==
  (pc = "done" /\ last.op = "parse_owl_file" /\ ~UnusableFile)
  => /\ last.outcome # "SyntaxError"
     /\ last.outcome = "return"
          => \A e \in DOMAIN last.entities :
               DOMAIN last.entities[e].synonyms = SynonymType

\* ---- the document behind a parse
\* The class elements that are direct children of the document's root.
RootClasses ==
  SelectSeq(file.document[1].root.children,
            LAMBDA c : ~c.comment /\ c.ns = OWL /\ c.tag = "Class")

\* The element an entity of the entity map was read from: the last class of
\* the root that carries the identity.
SourceClass(entity_id) ==
  RootClasses[CHOOSE i \in DOMAIN RootClasses :
                /\ elem_get(RootClasses[i], RDF, "about") = Some(entity_id)
                /\ \A j \in DOMAIN RootClasses :
                     elem_get(RootClasses[j], RDF, "about") = Some(entity_id) => j <= i]

\* The rdf:resource values of an element's direct children of one kind, in
\* document order.
ResourcesOf(element, ns, tag) ==
  LET kids == SelectSeq(element.children,
                        LAMBDA c : ~c.comment /\ c.ns = ns /\ c.tag = tag)
  IN  present([i \in DOMAIN kids |-> elem_get(kids[i], RDF, "resource")])

ParseReturned == pc = "done" /\ last.op = "parse_owl_file" /\ last.outcome = "return"

\* C16: without a skos namespace every entity's matches mapping is empty; with
\* one, it has the four match kinds, each listing the rdf:resource value of
\* every direct child of that kind.
C16_MatchesAreRdfResources ==
  ParseReturned
  => \A e \in DOMAIN last.entities :
       IF "skos" \notin DOMAIN last.namespace_map
       THEN DOMAIN last.entities[e].matches = {}
       ELSE /\ DOMAIN last.entities[e].matches = MatchType
            /\ \A kind \in MatchType :
                 last.entities[e].matches[kind] = ResourcesOf(SourceClass(e), SKOS, kind)

\* C17: an unlimited get_ancestors / get_descendants that follows a chain
\* deeper than the traversal-depth ceiling raises no error: the walk stops
\* expanding past the ceiling and returns the URIs collected up to it.
C17_CeilingStopsSilently ==
  LET top == Cardinality(DOMAIN subclass_map)
      ahead == IF last.op = "get_ancestors" THEN top - last.entity_id
               ELSE last.entity_id
      within == 1..(MAX_RECURSION_DEPTH + 1)
  IN  (/\ pc = "done"
       /\ last.op \in {"get_ancestors", "get_descendants"}
       /\ last.max_depth = UNLIMITED_DEPTH
       /\ ahead > MAX_RECURSION_DEPTH)
      => /\ last.outcome = "return"
         /\ last.result = IF last.op = "get_ancestors"
                          THEN {last.entity_id + k : k \in within}
                          ELSE {last.entity_id - k : k \in within}

\* C18: after a successful parse the keys of the entity map are exactly the
\* non-empty rdf:about values of the class elements that are direct children
\* of the root.
C18_KeysAreAbouts ==
  ParseReturned
  => DOMAIN last.entities =
       {about[1] : about \in {a \in {elem_get(RootClasses[i], RDF, "about") :
                                       i \in DOMAIN RootClasses} : truthy(a)}}

C18_Witness ==
  /\ ParseReturned
  /\ last.entities # <<>>
  /\ \E i \in DOMAIN RootClasses : ~truthy(elem_get(RootClasses[i], RDF, "about"))

\* C19: an entity's disjoints field holds exactly the rdf:resource URIs of its
\* element's direct disjointWith children, each URI once, also when the
\* document references the same URI twice.
C19_DisjointsAreASet ==
  ParseReturned
  => \A e \in DOMAIN last.entities :
       /\ Range(last.entities[e].disjoints)
            = Range(ResourcesOf(SourceClass(e), OWL, "disjointWith"))
       /\ NoDuplicates(last.entities[e].disjoints)

\* C20: for every entity id of the entity map and every max_depth, the
\* facade's get_parents ends as HierarchyNavigator.get_ancestors does on the
\* same document (no error, the same set of URIs), and get_children as
\* get_descendants does, cyclic hierarchies included.
C20_FacadeDelegates ==
  (pc = "done" /\ last.op \in {"get_parents", "get_children"}
     /\ last.entity_id \in DOMAIN entities)
  => LET smap == build_subclass_map(entities)
         rmap == build_reverse_map(smap)
         navigator ==
           IF last.op = "get_parents"
           THEN traverse_ancestors(smap, last.entity_id, last.max_depth, {}, 0)
           ELSE traverse_descendants(rmap, last.entity_id, last.max_depth, {}, 0)
     IN  /\ last.outcome = "return"
         /\ \E o \in navigator : Range(last.result) = o.result

\* C21: for the same entities, the facade's similar-terms query works over the
\* term index build_term_index gives and ends as SimilaritySearch.find_similar
\* does: the same list of entries for a registered label, TermNotFoundError
\* for a label that is not registered.
C21_FacadeDelegatesSimilarity ==
  (pc = "done" /\ last.op = "get_similar_terms")
  => LET index == build_term_index(entities)
         engine == find_similar(index.term_to_ids, index.index_to_term,
                                index.term_to_index, None,
                                ensure_matrix(index.term_to_ids, None),
                                last.term, last.n, last.threshold)
     IN  /\ term_to_ids = index.term_to_ids
         /\ index_to_term = index.index_to_term
         /\ \E r \in engine :
              /\ r.outcome = last.outcome
              /\ r.outcome = "return" => r.result = last.result

\* C22: no query (get_ancestors, get_descendants, has_entity, has_term,
\* find_similar), whatever its arguments and whatever came before, changes the
\* forward map, the reverse map, the term-to-ids index or the label/index
\* bijection; only the similarity-matrix cache may change.
C22_QueriesChangeOnlyTheCache ==
  [][/\ subclass_map' = subclass_map
     /\ reverse_map' = reverse_map
     /\ term_to_ids' = term_to_ids
     /\ index_to_term' = index_to_term
     /\ term_to_index' = term_to_index]_vars

C22_Witness ==
  /\ pc = "done"
  /\ last.op = "get_ancestors"
  /\ last.entity_id \notin DOMAIN subclass_map
  /\ similarity_matrix # None

\* The URIs a path of one to k edges of E leads to from a URI of S.
RECURSIVE Within(_, _, _)
Within(E, S, k) ==
  IF k <= 0 THEN {}
  ELSE LET step == {edge[2] : edge \in {x \in E : x[1] \in S}}
       IN  step \cup Within(E, step, k - 1)

\* C23: for k >= 0, every URI get_ancestors(id, max_depth=k) returns is at
\* most k forward edges from id (none for k = 0, the direct superclasses for
\* k = 1), and every URI get_descendants(id, max_depth=k) returns is at most k
\* reverse edges from id.
C23_DepthBoundsDistance ==
  (pc = "done" /\ last.op \in {"get_ancestors", "get_descendants"}
     /\ last.max_depth >= 0)
  => LET edges == SuperEdges
         followed == IF last.op = "get_ancestors" THEN edges ELSE Inverse(edges)
     IN  Range(last.result) \subseteq Within(followed, {last.entity_id}, last.max_depth)

\* ------------------------------------- hierarchy.py: building the map
\* The entity maps build_subclass_map is applied to: one entity whose
\* "subclasses" list holds plain URI strings, Restriction dicts and lists of
\* either, as a caller of the public function may pass them; at most one
\* entry of the list is itself a list.
MaxEntries == 2

SeqsUpTo(S, n) == UNION {[1..k -> S] : k \in 0..n}

Fillers == {None} \cup {Some(URIPool[i]) : i \in 1..2}

Members ==
  {StrItem(URIPool[i]) : i \in 1..2}
    \cup {RestrictionDict(Some("part_of"), v) : v \in Fillers}

SubclassLists ==
  LET flat == SeqsUpTo(Members, MaxEntries)
  IN  flat \cup UNION {{[xs EXCEPT ![i] = ListItem(ys)] : i \in DOMAIN xs, ys \in flat} :
                         xs \in flat}

MapInit ==
  /\ NoFile
  /\ \E entity_id \in URIs, subclasses \in SubclassLists :
       entities = (entity_id :> [properties |-> NoProperties, subclasses |-> subclasses])
  /\ NoHierarchy
  /\ NoSimilarity
  /\ pc = "idle"
  /\ last = Idle

MapBuildSubclassMap ==
  /\ pc = "idle"
  /\ subclass_map' = build_subclass_map(entities)
  /\ reverse_map' = build_reverse_map(subclass_map')
  /\ pc' = "done"
  /\ last' = [op |-> "build_subclass_map"]
  /\ UNCHANGED <<file, entities, relations, callstack, recursionlimit, simVars>>

MapNext == MapBuildSubclassMap \/ Resume

MapSpec == MapInit /\ [][MapNext]_vars

\* The plain URI strings of an entity's "subclasses" list: its string entries
\* and the strings inside its list-shaped entries.
PlainURIs(entity) ==
  LET entries == entity.subclasses
      top == {entries[i].value : i \in {j \in DOMAIN entries : entries[j].kind = "str"}}
      nested(xs) == {xs[i].value : i \in {j \in DOMAIN xs : xs[j].kind = "str"}}
  IN  top \cup UNION {nested(entries[i].items) :
                        i \in {j \in DOMAIN entries : entries[j].kind = "list"}}

\* C24: the forward map built from an entity map gives every entity exactly
\* the plain URI strings of its subclasses list, top-level or nested in a
\* list-shaped entry; a Restriction dict adds nothing, its someValuesFrom
\* included; an entity without any plain URI is not a key of the map.
C24_ForwardMapIsThePlainURIs ==
  (pc = "done" /\ last.op = "build_subclass_map")
  => /\ DOMAIN subclass_map = {e \in DOMAIN entities : PlainURIs(entities[e]) # {}}
     /\ \A e \in DOMAIN subclass_map : subclass_map[e] = PlainURIs(entities[e])

\* An entity with a list-shaped entry that holds a plain URI next to a
\* Restriction whose filler is another URI, after the map was built.
C24_Witness ==
  /\ pc = "done" /\ last.op = "build_subclass_map"
  /\ \E e \in DOMAIN entities :
       \E i \in DOMAIN entities[e].subclasses :
         LET entry == entities[e].subclasses[i]
         IN  /\ entry.kind = "list"
             /\ \E j, k \in DOMAIN entry.items :
                  /\ entry.items[j].kind = "str"
                  /\ entry.items[k].kind = "dict"
                  /\ entry.items[k].someValuesFrom # None
                  /\ e \in DOMAIN subclass_map
                  /\ entry.items[k].someValuesFrom[1] \notin subclass_map[e]

RECURSIVE Flatten(_)
Flatten(seqs) == IF seqs = <<>> THEN <<>> ELSE Head(seqs) \o Flatten(Tail(seqs))

\* What the children of an element hold under one local tag name, in document
\* order: of each child in a known namespace its trimmed text, when it has
\* text, and then its rdf:resource, when it has one.
ValuesUnder(element, tag, namespace_map) ==
  LET kids == SelectSeq(element.children,
                        LAMBDA c : ~c.comment /\ c.tag = tag /\ c.ns \in Range(namespace_map))
      resource(c) == elem_get(c, namespace_map["rdf"], "resource")
      held(c) == (IF c.text # None /\ c.text[1] # "" THEN <<strip(c.text[1])>> ELSE <<>>)
                   \o (IF resource(c) # None /\ resource(c)[1] # ""
                       THEN <<resource(c)[1]>> ELSE <<>>)
  IN  Flatten([i \in DOMAIN kids |-> held(kids[i])])

\* C25: a property of an extracted entity is a single string exactly when one
\* value was accumulated under its local tag name, and is then that value;
\* with two or more values it is the list of them in document order; no
\* property is a list of one value.
C25_SingleValuesCollapse ==
  ParseReturned
  => \A e \in DOMAIN last.entities :
       \A key \in DOMAIN last.entities[e].properties :
         LET value == last.entities[e].properties[key]
             held == ValuesUnder(SourceClass(e), key, last.namespace_map)
         IN  /\ value.scalar <=> Len(held) = 1
             /\ value.scalar => value.vals = <<held[1]>>
             /\ Len(held) >= 2 => value.vals = held
             /\ ~value.scalar => Len(value.vals) # 1

\* An entity with a property of one value, a property of two values from two
\* children and a property of two values from one child.
C25_Witness ==
  /\ ParseReturned
  /\ \E e \in DOMAIN last.entities :
       LET properties == last.entities[e].properties
       IN  /\ {"seeAlso", "label", "isDefinedBy"} \subseteq DOMAIN properties
           /\ properties["seeAlso"] = Str("B")
           /\ properties["label"] = Lst(<<"heart", "cardiac disease">>)
           /\ properties["isDefinedBy"] = Lst(<<"x", "B">>)

\* ---- the restrictions of an intersection
ChildrenNamed(element, ns, tag) ==
  SelectSeq(element.children, LAMBDA c : ~c.comment /\ c.ns = ns /\ c.tag = tag)

\* The Collection an element holds as a direct child, if any.
CollectionsOf(element) ==
  SelectSeq(ChildrenNamed(element, OWL, "intersectionOf"),
            LAMBDA c : elem_get(c, RDF, "parseType") = Some("Collection"))

\* The record of a restriction element: the rdf:resource of its onProperty
\* and of its someValuesFrom, none for the one it lacks.
RecordOf(restriction) ==
  LET ref(kids) == IF kids = <<>> THEN None ELSE elem_get(kids[1], RDF, "resource")
  IN  RestrictionDict(ref(ChildrenNamed(restriction, OWL, "onProperty")),
                      ref(ChildrenNamed(restriction, OWL, "someValuesFrom")))

\* The restrictions among the members of a Collection, those of the nested
\* intersections included, in document order.
RECURSIVE RestrictionsAmong(_)
RestrictionsAmong(members) ==
  IF members = <<>> THEN <<>>
  ELSE LET member == Head(members)
           own == IF member.comment THEN <<>>
                  ELSE IF member.ns = OWL /\ member.tag = "Restriction"
                  THEN <<RecordOf(member)>>
                  ELSE IF CollectionsOf(member) # <<>>
                  THEN RestrictionsAmong(CollectionsOf(member)[1].children)
                  ELSE IF ChildrenNamed(member, OWL, "Restriction") # <<>>
                  THEN <<RecordOf(ChildrenNamed(member, OWL, "Restriction")[1])>>
                  ELSE <<>>
       IN  own \o RestrictionsAmong(Tail(members))

Occurrences(seq, x) == Cardinality({i \in DOMAIN seq : seq[i] = x})

\* C26: for every subClassOf child without an rdf:resource that holds an
\* intersection Collection, the entity's subclasses list has a list entry
\* with one Restriction record for each restriction among the Collection's
\* members, nested intersections included; no restriction is left out.
C26_NoRestrictionLost ==
  ParseReturned
  => \A e \in DOMAIN last.entities :
       LET subclasses == last.entities[e].subclasses
           children == ChildrenNamed(SourceClass(e), RDFS, "subClassOf")
       IN  \A c \in DOMAIN children :
             (/\ ~truthy(elem_get(children[c], RDF, "resource"))
              /\ CollectionsOf(children[c]) # <<>>
              /\ RestrictionsAmong(CollectionsOf(children[c])[1].children) # <<>>)
             => LET expected == RestrictionsAmong(CollectionsOf(children[c])[1].children)
                IN  \E i \in DOMAIN subclasses :
                      /\ subclasses[i].kind = "list"
                      /\ \A record \in Range(expected) :
                           Occurrences(subclasses[i].items, record)
                             = Occurrences(expected, record)

\* ---------------------------------------- hierarchy.py: wider hierarchies
\* A navigator over the hierarchies of one more class and one more edge in
\* which every class names a superclass, so that no walk ends at a root short
\* of its depth bound: the smallest in which a class is met at two depths.
WideURIs == {URIPool[i] : i \in 1..(NumURIs + 1)}

WideHierarchies ==
  {sup \in [WideURIs -> (SUBSET WideURIs) \ {{}}] :
     LET RECURSIVE total(_)
         total(S) == IF S = {} THEN 0
                     ELSE LET u == CHOOSE x \in S : TRUE
                          IN  Cardinality(sup[u]) + total(S \ {u})
     IN  total(WideURIs) <= MaxEdges + 1}

WideInit ==
  /\ NoFile
  /\ \E sup \in WideHierarchies :
       /\ entities = [e \in {u \in WideURIs : sup[u] # {}} |-> EntityOf(sup[e])]
       /\ subclass_map = build_subclass_map(entities)
       /\ reverse_map = build_reverse_map(subclass_map)
  /\ relations = <<>>
  /\ NoTraversal
  /\ NoSimilarity
  /\ pc = "idle"
  /\ last = Idle

WideSpec == WideInit /\ [][NavNext]_vars

\* C27: the set of URIs a get_ancestors / get_descendants call returns is the
\* set every other order of iterating the superclass / subclass sets returns
\* for the same hierarchy, identifier and max_depth.
C27_ResultIndependentOfOrder ==
  /\ (pc = "done" /\ last.op = "get_ancestors")
     => \A r \in get_ancestors(subclass_map, last.entity_id, last.max_depth) :
          Range(r.result) = Range(last.result)
  /\ (pc = "done" /\ last.op = "get_descendants")
     => \A r \in get_descendants(reverse_map, last.entity_id, last.max_depth) :
          Range(r.result) = Range(last.result)

=============================================================================
